---- MODULE Spec2Model ----
(***************************************************************************)
(* Verification model of the trading-mcp-server period-analysis pipeline:  *)
(* TradingController.analyzePeriod / getMarketOHLC, the GeminiService JSON *)
(* flow, the AI result schemas and the text coercion post-processor, the   *)
(* symbol mapper, PolygonService (fetchWithRetry and getForexAggregates    *)
(* with its two cache tiers), the macro repository, the indicator and      *)
(* macro utilities, the news scoring and the personal-context truncation.  *)
(*                                                                         *)
(* Conventions                                                             *)
(*  - a JavaScript string is a sequence of one-character strings; a        *)
(*    Cyrillic letter is written as a token such as "ru_k";                *)
(*  - an instant is a record [k, h]: k = "ok" with h the time in hours,    *)
(*    k = "nan" for an unparsable date, k = "missing" for an absent field; *)
(*  - a number of the indicator and scoring code is an IEEE 754 binary64   *)
(*    value [nan, neg, sig, exp], rounded to nearest, ties to even;        *)
(*  - profits are integers in tenths of the account currency (455 = 45.5). *)
(***************************************************************************)
EXTENDS Integers, Sequences, FiniteSets, TLC

\* ------------------------------------------------------------------ bounds
MaxTrades == 2
MaxSymbols == 2

\* ------------------------------------------------------------------- state
\* one analyzePeriod / getMarketOHLC request in the controller
VARIABLES req, pc, idx, workers, candlesBySymbol, enrichedTrades, news,
          macroData, singleTradeId, personalContext, calls, aiMeta, resp,
          aiAnalysis
\* the Gemini service: its configuration and the call in progress
VARIABLES cfg, llm, aiResult
\* a raw text handed to coerceTextToV2 and what came back
VARIABLES rawInput, coerced, cpc
\* a journal symbol handed to the symbol mapper and what came back
VARIABLES journalSymbol, mapped
\* one PolygonService.fetchWithRetry call
VARIABLES pg
\* the macro repository's tables and the upsertObservation call in progress
VARIABLES macroObservation, macroLatest, upsert
\* one use of the indicator utilities: its arguments and its results
VARIABLES ind
\* one application of a pure utility: its name, its arguments and its result
VARIABLES call
\* the market-data gateway: the getForexAggregates calls, the in-memory
\* cache, the Redis store, the clock, and the surroundings (whether Redis is
\* configured, the API key, what the provider serves)
VARIABLES agg, cache, redis, clock, world
\* the getForexAggregates calls the candle workers have started, in order
VARIABLES fetchLog
\* one getNewsDigest call; the news tables and the upsertArticleWithIndex
\* calls in progress; the process-wide HTTP dispatcher and the Gemini calls
\* in progress; the macro read-through of successive requests
VARIABLES digest, newsArticle, newsSymbolIndex, writers, dispatcher, tries, macroFlow

ctlVars == <<req, pc, idx, workers, candlesBySymbol, enrichedTrades, news,
             macroData, singleTradeId, personalContext, calls, aiMeta, resp,
             aiAnalysis>>
llmVars == <<cfg, llm, aiResult>>
coerceVars == <<rawInput, coerced, cpc>>
utilVars == <<journalSymbol, mapped, pg, macroObservation, macroLatest, upsert, ind>>
moreVars == <<call>>
gatewayVars == <<agg, cache, redis, clock, world>>
poolVars == <<fetchLog>>
flowVars == <<digest, newsArticle, newsSymbolIndex, writers, dispatcher, tries, macroFlow>>
vars == <<ctlVars, llmVars, coerceVars, utilVars, moreVars, gatewayVars, poolVars, flowVars>>

\* ------------------------------------------------------- string primitives
LowerCase == <<"a","b","c","d","e","f","g","h","i","j","k","l","m",
               "n","o","p","q","r","s","t","u","v","w","x","y","z">>
UpperCase == <<"A","B","C","D","E","F","G","H","I","J","K","L","M",
               "N","O","P","Q","R","S","T","U","V","W","X","Y","Z">>

IsSpace(c) == c \in {" ", "\n", "\t"}

UpperChar(c) ==
  IF \E i \in 1..Len(LowerCase) : LowerCase[i] = c
  THEN UpperCase[CHOOSE i \in 1..Len(LowerCase) : LowerCase[i] = c]
  ELSE c

LowerChar(c) ==
  IF \E i \in 1..Len(UpperCase) : UpperCase[i] = c
  THEN LowerCase[CHOOSE i \in 1..Len(UpperCase) : UpperCase[i] = c]
  ELSE c

ToUpperCase(s) == [i \in 1..Len(s) |-> UpperChar(s[i])]
ToLowerCase(s) == [i \in 1..Len(s) |-> LowerChar(s[i])]

\* Scans are written over a mask (one boolean per position) and halve their
\* range, so that their depth stays logarithmic in the length of the string.
\* least index in lo..hi whose mask is TRUE, hi + 1 when there is none
RECURSIVE FirstTrue(_, _, _)
FirstTrue(mask, lo, hi) ==
  IF lo > hi THEN hi + 1
  ELSE IF lo = hi THEN (IF mask[lo] THEN lo ELSE hi + 1)
  ELSE LET mid == (lo + hi) \div 2
           l == FirstTrue(mask, lo, mid)
       IN IF l <= mid THEN l ELSE FirstTrue(mask, mid + 1, hi)

\* greatest index in lo..hi whose mask is TRUE, lo - 1 when there is none
RECURSIVE LastTrue(_, _, _)
LastTrue(mask, lo, hi) ==
  IF lo > hi THEN lo - 1
  ELSE IF lo = hi THEN (IF mask[lo] THEN lo ELSE lo - 1)
  ELSE LET mid == (lo + hi) \div 2
           r == LastTrue(mask, mid + 1, hi)
       IN IF r > mid THEN r ELSE LastTrue(mask, lo, mid)

NonSpaceMask(s) == [k \in 1..Len(s) |-> ~IsSpace(s[k])]

\* s.trim()
Trim(s) ==
  LET m == NonSpaceMask(s)
      a == FirstTrue(m, 1, Len(s))
      b == LastTrue(m, 1, Len(s))
  IN IF a > Len(s) THEN <<>> ELSE SubSeq(s, a, b)

\* ------------------------------------------------------- symbol normalizer
normalizeJournalSymbol(symbol) ==
  IF Len(symbol) = 0 THEN symbol
  ELSE LET s == ToUpperCase(Trim(symbol))
       IN IF Len(s) > 0 /\ s[Len(s)] = "+" THEN SubSeq(s, 1, Len(s) - 1) ELSE s

\* the custom dictionary of tickers that do not match (CFD WTI)
CUSTOM_MAP(s) ==
  IF s = <<"U","S","O","U","S","D">> THEN <<"X","T","I","U","S","D">> ELSE <<>>

Digits == <<"0","1","2","3","4","5","6","7","8","9">>
IsUpperAlnum(c) ==
  \/ \E i \in 1..Len(UpperCase) : UpperCase[i] = c
  \/ \E i \in 1..Len(Digits) : Digits[i] = c

Includes(s, c) == \E i \in 1..Len(s) : s[i] = c

\* the prefix added to every symbol, prefixed or not
mapToPolygonForexTicker_AlwaysPrefix(sym, forexPrefix) ==
  LET normalized == normalizeJournalSymbol(sym)
      dict == CUSTOM_MAP(normalized)
      compact == SelectSeq(IF Len(dict) > 0 THEN dict ELSE normalized, IsUpperAlnum)
  IN forexPrefix \o compact

mapToPolygonForexTicker(sym, forexPrefix) ==
  LET normalized == normalizeJournalSymbol(sym)
      dict == CUSTOM_MAP(normalized)
      compact == SelectSeq(IF Len(dict) > 0 THEN dict ELSE normalized, IsUpperAlnum)
  IN IF Includes(normalized, ":") THEN normalized
     ELSE forexPrefix \o compact

\* config.api.polygon.defaults.forexPrefix
ForexPrefix == <<"C", ":">>

\* ------------------------------------------------------------- date ranges
HoursPerDay == 24

\* caps compared with >= written as >: one day too generous
MAX_RANGE_DAYS_OneMore == [minute |-> 8, hour |-> 31, day |-> 366]

MAX_RANGE_DAYS == [minute |-> 7, hour |-> 30, day |-> 365]

DAYS_NAN == -1

CeilDiv(a, b) == -((-a) \div b)

Max(a, b) == IF a >= b THEN a ELSE b

\* NaN is reported as DAYS_NAN; every other result is >= 0
diffDaysUTC(from, to) ==
  IF from.k # "ok" \/ to.k # "ok" THEN DAYS_NAN
  ELSE Max(0, CeilDiv(to.h - from.h, HoursPerDay))

Instant(h) == [k |-> "ok", h |-> h]
InvalidDate == [k |-> "nan", h |-> 0]
MissingDate == [k |-> "missing", h |-> 0]

\* body.timespan || 'day'
EffectiveTimespan(ts) == IF ts = "" THEN "day" ELSE ts

\* ------------------------------------------------------------ JSON values
\* A parsed JSON value (or a JavaScript value read from one) is tagged by t.
JUndef == [t |-> "undef"]
JNull == [t |-> "null"]
JNum == [t |-> "num"]
JStr(s) == [t |-> "str", s |-> s]
JArr(e) == [t |-> "arr", e |-> e]
JObj(f) == [t |-> "obj", f |-> f]

\* obj.name (undefined when the property is absent or obj holds no properties)
Get(obj, name) ==
  IF obj.t = "obj" /\ name \in DOMAIN obj.f THEN obj.f[name] ELSE JUndef

\* v == null
IsNullish(v) == v.t \in {"undef", "null"}

\* typeof v === 'object'
TypeofObject(v) == v.t \in {"obj", "arr", "null"}

\* typeof v === 'string' && v.trim()
IsNonEmptyString(v) == v.t = "str" /\ Len(Trim(v.s)) > 0

\* Array.isArray(v) && v.every(s => typeof s === 'string')
IsStringArray(v) == v.t = "arr" /\ \A i \in 1..Len(v.e) : v.e[i].t = "str"

\* ------------------------------------------------------------- AI schemas
RiskAssessmentOk(r) ==
  IF IsNullish(r) THEN TRUE
  ELSE /\ TypeofObject(r)
       /\ IsNullish(Get(r, "period")) \/ Get(r, "period").t = "str"
       /\ IsNullish(Get(r, "instruments")) \/ Get(r, "instruments").t = "obj"
       /\ IsNullish(Get(r, "keyRisks")) \/ IsStringArray(Get(r, "keyRisks"))

\* the .ok of validateAiResult(obj)
validateAiResult(obj) ==
  /\ ~IsNullish(obj)
  /\ TypeofObject(obj)
  /\ IsNonEmptyString(Get(obj, "summary"))
  /\ IsStringArray(Get(obj, "strengths"))
  /\ IsStringArray(Get(obj, "weaknesses"))
  /\ IsStringArray(Get(obj, "recommendations"))
  /\ RiskAssessmentOk(Get(obj, "riskAssessment"))
  /\ IsNullish(Get(obj, "assumptions")) \/ IsStringArray(Get(obj, "assumptions"))

\* the .ok of validateAiResultV2(obj)
validateAiResultV2(obj) ==
  /\ ~IsNullish(obj)
  /\ TypeofObject(obj)
  /\ IsNonEmptyString(Get(obj, "summary"))
  /\ IsNonEmptyString(Get(obj, "marketContext"))
  /\ IsNonEmptyString(Get(obj, "tradeAnalysis"))
  /\ IsNonEmptyString(Get(obj, "psychology"))
  /\ IsStringArray(Get(obj, "strengths"))
  /\ IsStringArray(Get(obj, "weaknesses"))
  /\ IsStringArray(Get(obj, "recommendations"))

\* ------------------------------------------------- text coercion (ai-postprocess)
IsAsciiLetter(c) ==
  \E i \in 1..Len(LowerCase) : LowerCase[i] = c \/ UpperCase[i] = c

StartsWith(s, p) == Len(s) >= Len(p) /\ SubSeq(s, 1, Len(p)) = p

\* BACKTICK stands for the character U+0060
BACKTICK == "backtick"

FenceMask(s) ==
  [k \in 1..Len(s) |->
     k + 2 <= Len(s) /\ s[k] = BACKTICK /\ s[k + 1] = BACKTICK /\ s[k + 2] = BACKTICK]

NonLetterMask(s) == [k \in 1..Len(s) |-> ~IsAsciiLetter(s[k])]

\* s.replace(/```[a-zA-Z]*\n?|```/g, '') from position i on: the text up to the
\* next fence is kept; the fence, the letters after it and one line feed are dropped
RECURSIVE RemoveFences(_, _, _, _)
RemoveFences(s, i, fences, nonLetters) ==
  LET f == FirstTrue(fences, i, Len(s))
  IN IF f > Len(s) THEN SubSeq(s, i, Len(s))
     ELSE LET j == FirstTrue(nonLetters, f + 3, Len(s))
              k == IF j <= Len(s) /\ s[j] = "\n" THEN j + 1 ELSE j
          IN SubSeq(s, i, f - 1) \o RemoveFences(s, k, fences, nonLetters)

cleanup(text) == Trim(RemoveFences(text, 1, FenceMask(text), NonLetterMask(text)))

\* s.split(re) from position start on: a separator begins at the next position
\* whose sepStart is TRUE and ends before the next position whose sepStop is TRUE
RECURSIVE SplitAt(_, _, _, _)
SplitAt(s, sepStart, sepStop, start) ==
  LET k == FirstTrue(sepStart, start, Len(s))
  IN IF k > Len(s) THEN <<SubSeq(s, start, Len(s))>>
     ELSE <<SubSeq(s, start, k - 1)>>
          \o SplitAt(s, sepStart, sepStop, FirstTrue(sepStop, k + 1, Len(s)))

FilterNonEmpty(parts) == SelectSeq(parts, LAMBDA p : Len(p) > 0)

\* t.split(/(?<=[.!?])\s+/).filter(Boolean): a separator is a white-space run
\* that follows one of . ! ?
SplitSentences(t) ==
  FilterNonEmpty(SplitAt(t,
    [k \in 1..Len(t) |-> k > 1 /\ t[k - 1] \in {".", "!", "?"} /\ IsSpace(t[k])],
    NonSpaceMask(t), 1))

\* the for loop of pickFirstSentences over parts[i..]
RECURSIVE JoinWhileFits(_, _, _, _)
JoinWhileFits(parts, i, out, maxChars) ==
  IF i > Len(parts) THEN out
  ELSE IF Len(Trim(out \o <<" ">> \o parts[i])) > maxChars THEN out
       ELSE JoinWhileFits(parts, i + 1,
              (IF Len(out) > 0 THEN out \o <<" ">> ELSE <<>>) \o parts[i], maxChars)

pickFirstSentences(text, maxChars) ==
  LET t == cleanup(text)
  IN IF Len(t) <= maxChars THEN t
     ELSE LET out == JoinWhileFits(SplitSentences(t), 1, <<>>, maxChars)
          IN IF Len(out) > 0 THEN out ELSE SubSeq(t, 1, maxChars)

\* BULLET stands for the character U+2022
BULLET == "bullet"

\* s.split(/\n|;|\u2022|\*/)
SplitBullets(s) ==
  SplitAt(s, [k \in 1..Len(s) |-> s[k] \in {"\n", ";", BULLET, "*"}],
          [k \in 1..Len(s) |-> TRUE], 1)

\* s.split(/[,.;]\s+/)
SplitPhrases(s) ==
  SplitAt(s,
    [k \in 1..Len(s) |-> s[k] \in {",", ".", ";"} /\ k + 1 <= Len(s) /\ IsSpace(s[k + 1])],
    NonSpaceMask(s), 1)

TrimAll(parts) == [i \in 1..Len(parts) |-> Trim(parts[i])]

\* arr.slice(0, n)
Slice0(arr, n) == SubSeq(arr, 1, IF Len(arr) < n THEN Len(arr) ELSE n)

LIST_LIMIT == 10

extractList(text) ==
  LET t == cleanup(text)
      bullets == FilterNonEmpty(TrimAll(SplitBullets(t)))
  IN IF Len(bullets) > 1 THEN Slice0(bullets, LIST_LIMIT)
     ELSE Slice0(SelectSeq(TrimAll(SplitPhrases(t)), LAMBDA p : Len(p) > 2),
                 LIST_LIMIT)

\* heading keywords of coerceTextToV2; "ru_x" tokens spell the Cyrillic ones
RU_KONTEKST == <<"ru_k","ru_o","ru_n","ru_t","ru_e","ru_k","ru_s","ru_t">>
RU_RYNOK == <<"ru_r","ru_y","ru_n","ru_o","ru_k">>
RU_SDELK == <<"ru_s","ru_d","ru_e","ru_l","ru_k">>
RU_PSIHOLOG == <<"ru_p","ru_s","ru_i","ru_h","ru_o","ru_l","ru_o","ru_g">>
RU_SILN == <<"ru_s","ru_i","ru_l","ru_soft","ru_n">>
RU_SLAB == <<"ru_s","ru_l","ru_a","ru_b">>
RU_OSHIB == <<"ru_o","ru_sh","ru_i","ru_b">>
RU_REKOMEND == <<"ru_r","ru_e","ru_k","ru_o","ru_m","ru_e","ru_n","ru_d">>
EN_MARKET == <<"m","a","r","k","e","t">>
EN_TRADE == <<"t","r","a","d","e">>
EN_PSYCHO == <<"p","s","y","c","h","o">>
EN_STRENGTH == <<"s","t","r","e","n","g","t","h">>
EN_WEAK == <<"w","e","a","k">>
EN_RECOM == <<"r","e","c","o","m">>

\* the if / else-if chain that moves `current` on a heading line
SectionOf(low, current) ==
  IF StartsWith(low, RU_KONTEKST) \/ StartsWith(low, RU_RYNOK) \/ StartsWith(low, EN_MARKET)
    THEN "marketContext"
  ELSE IF StartsWith(low, RU_SDELK) \/ StartsWith(low, EN_TRADE) THEN "tradeAnalysis"
  ELSE IF StartsWith(low, RU_PSIHOLOG) \/ StartsWith(low, EN_PSYCHO) THEN "psychology"
  ELSE IF StartsWith(low, RU_SILN) \/ StartsWith(low, EN_STRENGTH) THEN "strengths"
  ELSE IF StartsWith(low, RU_SLAB) \/ StartsWith(low, RU_OSHIB) \/ StartsWith(low, EN_WEAK)
    THEN "weaknesses"
  ELSE IF StartsWith(low, RU_REKOMEND) \/ StartsWith(low, EN_RECOM) THEN "recommendations"
  ELSE current

\* s.split(/\n+/)
SplitLines(s) ==
  SplitAt(s, [k \in 1..Len(s) |-> s[k] = "\n"], [k \in 1..Len(s) |-> s[k] # "\n"], 1)

\* an absent entry of map is the empty string: both are falsy where map is read
EmptySections ==
  [summary |-> <<>>, marketContext |-> <<>>, tradeAnalysis |-> <<>>, psychology |-> <<>>,
   strengths |-> <<>>, weaknesses |-> <<>>, recommendations |-> <<>>]

\* the forEach over the lines of t, from line i on
RECURSIVE CollectSections(_, _, _, _)
CollectSections(lines, i, current, map) ==
  IF i > Len(lines) THEN map
  ELSE LET L == Trim(lines[i])
           cur == SectionOf(ToLowerCase(L), current)
           old == map[cur]
           new == (IF Len(old) > 0 THEN old \o <<"\n">> ELSE <<>>) \o L
       IN CollectSections(lines, i + 1, cur, [map EXCEPT ![cur] = new])

\* JavaScript a || b on strings, and a.length ? a : b on arrays
\* a || b that forgets the right-hand side
OrElse_LeftOnly(a, b) == a

OrElse(a, b) == IF Len(a) > 0 THEN a ELSE b

SUMMARY_MAX_CHARS == 400
MARKET_MAX_CHARS == 600
TRADE_MAX_CHARS == 800
PSYCHOLOGY_MAX_CHARS == 400

\* the fixed placeholder sentences, each one token long
PH_SUMMARY == <<"[summary unavailable]">>
PH_MARKET == <<"[market context not stated]">>
PH_TRADE == <<"[trade analysis not stated]">>
PH_PSYCHOLOGY == <<"[psychology not stated]">>
PH_STRENGTHS == <<<<"[no strengths singled out]">>>>
PH_WEAKNESSES == <<<<"[no mistakes singled out]">>>>
PH_RECOMMENDATIONS == <<<<"[no recommendations stated]">>>>

coerceTextToV2(raw) ==
  LET t == cleanup(raw)
      map == CollectSections(SplitLines(t), 1, "summary", EmptySections)
      summary == pickFirstSentences(OrElse(map.summary, t), SUMMARY_MAX_CHARS)
      marketContext ==
        pickFirstSentences(OrElse(map.marketContext, OrElse(map.summary, t)), MARKET_MAX_CHARS)
      tradeAnalysis == pickFirstSentences(OrElse(map.tradeAnalysis, t), TRADE_MAX_CHARS)
      psychology == pickFirstSentences(map.psychology, PSYCHOLOGY_MAX_CHARS)
      strengths == extractList(map.strengths)
      weaknesses == extractList(map.weaknesses)
      recommendations == extractList(OrElse(map.recommendations, OrElse(map.tradeAnalysis, t)))
  IN [summary |-> OrElse(summary, PH_SUMMARY),
      marketContext |-> OrElse(marketContext, PH_MARKET),
      tradeAnalysis |-> OrElse(tradeAnalysis, PH_TRADE),
      psychology |-> OrElse(psychology, PH_PSYCHOLOGY),
      strengths |-> OrElse(strengths, PH_STRENGTHS),
      weaknesses |-> OrElse(weaknesses, PH_WEAKNESSES),
      recommendations |-> OrElse(recommendations, PH_RECOMMENDATIONS)]

\* the coerced object as the JavaScript value the validators read
StringList(xs) == JArr([i \in 1..Len(xs) |-> JStr(xs[i])])

CoercedValue(c) ==
  JObj([summary |-> JStr(c.summary), marketContext |-> JStr(c.marketContext),
        tradeAnalysis |-> JStr(c.tradeAnalysis), psychology |-> JStr(c.psychology),
        strengths |-> StringList(c.strengths), weaknesses |-> StringList(c.weaknesses),
        recommendations |-> StringList(c.recommendations)])

\* --------------------------------------------------- raw texts for coercion
MaxSegments == 3

Chars(n, c) == [i \in 1..n |-> c]

\* one more character than the summary budget, without sentence punctuation
LongFillerLen == 401

Segments ==
  { <<"o","k","."," ">>,
    <<"\n">>,
    <<BACKTICK, BACKTICK, BACKTICK, "j","s","o","n","\n">>,
    <<"M","a","r","k","e","t"," ","u","p">>,
    <<"w","e","a","k",":"," ","a",";"," ","b","\n">>,
    <<" ">>,
    Chars(LongFillerLen, "x"),
    <<"*"," ","g","o",","," ","n","o">>,
    RU_SILN \o <<"\n">> }

RECURSIVE RawTexts(_)
RawTexts(n) ==
  IF n = 0 THEN { <<>> }
  ELSE LET shorter == RawTexts(n - 1)
       IN shorter \cup { r \o g : r \in shorter, g \in Segments }

NoCoerced ==
  [summary |-> <<>>, marketContext |-> <<>>, tradeAnalysis |-> <<>>,
   psychology |-> <<>>, strengths |-> <<>>, weaknesses |-> <<>>,
   recommendations |-> <<>>]

\* ------------------------------------------------- provider replies (Gemini)
\* The texts a model call can resolve with, and what JSON.parse makes of them.
V2OkText ==
    <<"{","\"","s","u","m","m","a","r","y","\"",":","\"","o","k","\"",",",
      "\"","m","a","r","k","e","t","C","o","n","t","e","x","t","\"",":",
      "\"","c","\"",",","\"","t","r","a","d","e","A","n","a","l","y","s",
      "i","s","\"",":","\"","a","\"",",","\"","p","s","y","c","h","o","l",
      "o","g","y","\"",":","\"","p","\"",",","\"","s","t","r","e","n","g",
      "t","h","s","\"",":","[","\"","s","\"","]",",","\"","w","e","a","k",
      "n","e","s","s","e","s","\"",":","[","\"","w","\"","]",",","\"","r",
      "e","c","o","m","m","e","n","d","a","t","i","o","n","s","\"",":","[",
      "\"","r","\"","]","}">>

V1OnlyText ==
    <<"{","\"","s","u","m","m","a","r","y","\"",":","\"","o","k","\"",",",
      "\"","s","t","r","e","n","g","t","h","s","\"",":","[","]",",","\"",
      "w","e","a","k","n","e","s","s","e","s","\"",":","[","\"","w","\"",
      "]",",","\"","r","e","c","o","m","m","e","n","d","a","t","i","o","n",
      "s","\"",":","[","\"","r","\"","]","}">>

BlankSummaryText ==
    <<"{","\"","s","u","m","m","a","r","y","\"",":","\""," ","\"",",","\"",
      "s","t","r","e","n","g","t","h","s","\"",":","[","]",",","\"","w","e",
      "a","k","n","e","s","s","e","s","\"",":","[","]",",","\"","r","e","c",
      "o","m","m","e","n","d","a","t","i","o","n","s","\"",":","[","]","}">>

BadRiskText ==
    <<"{","\"","s","u","m","m","a","r","y","\"",":","\"","o","k","\"",",",
      "\"","s","t","r","e","n","g","t","h","s","\"",":","[","]",",","\"",
      "w","e","a","k","n","e","s","s","e","s","\"",":","[","]",",","\"","r",
      "e","c","o","m","m","e","n","d","a","t","i","o","n","s","\"",":","[",
      "]",",","\"","r","i","s","k","A","s","s","e","s","s","m","e","n","t",
      "\"",":","1","}">>

NullText ==
    <<"n","u","l","l">>

ArrayText ==
    <<"[","]">>

FreeText ==
    <<"M","a","r","k","e","t"," ","u","p","."," ","w","e","a","k",":"," ",
      "a",";"," ","b">>

FencedText ==
    <<BACKTICK,BACKTICK,BACKTICK,"j","s","o","n","\n","{","\"","s","u","m",
      "m","a","r","y","\"",":","\"","o","k","\"","}","\n",BACKTICK,BACKTICK,
      BACKTICK>>

EmptyText ==
    <<>>


Str(chars) == JStr(chars)

V2OkValue ==
  JObj([summary |-> Str(<<"o","k">>), marketContext |-> Str(<<"c">>),
        tradeAnalysis |-> Str(<<"a">>), psychology |-> Str(<<"p">>),
        strengths |-> JArr(<<Str(<<"s">>)>>),
        weaknesses |-> JArr(<<Str(<<"w">>)>>),
        recommendations |-> JArr(<<Str(<<"r">>)>>)])

V1OnlyValue ==
  JObj([summary |-> Str(<<"o","k">>), strengths |-> JArr(<<>>),
        weaknesses |-> JArr(<<Str(<<"w">>)>>),
        recommendations |-> JArr(<<Str(<<"r">>)>>)])

BlankSummaryValue ==
  JObj([summary |-> Str(<<" ">>), strengths |-> JArr(<<>>),
        weaknesses |-> JArr(<<>>), recommendations |-> JArr(<<>>)])

BadRiskValue ==
  JObj([summary |-> Str(<<"o","k">>), strengths |-> JArr(<<>>),
        weaknesses |-> JArr(<<>>), recommendations |-> JArr(<<>>),
        riskAssessment |-> JNum])

\* JSON.parse(text): ok = FALSE stands for the SyntaxError it throws
JSONParse(text) ==
  CASE text = V2OkText -> [ok |-> TRUE, value |-> V2OkValue]
    [] text = V1OnlyText -> [ok |-> TRUE, value |-> V1OnlyValue]
    [] text = BlankSummaryText -> [ok |-> TRUE, value |-> BlankSummaryValue]
    [] text = BadRiskText -> [ok |-> TRUE, value |-> BadRiskValue]
    [] text = NullText -> [ok |-> TRUE, value |-> JNull]
    [] text = ArrayText -> [ok |-> TRUE, value |-> JArr(<<>>)]
    [] OTHER -> [ok |-> FALSE, value |-> JUndef]

AllReplyTexts ==
  { V2OkText, V1OnlyText, BlankSummaryText, BadRiskText, NullText, ArrayText,
    FreeText, FencedText, EmptyText }

\* a model call resolves with a text or rejects (transport error, timeout)
Resolved(text) == [k |-> "text", text |-> text]
Rejected(why) == [k |-> "reject", text |-> <<why>>]
CallOutcomes(texts) ==
  { Resolved(t) : t \in texts } \cup { Rejected("error"), Rejected("timeout") }

\* ------------------------------------------------------ configuration (env)
PrimaryModel == "gemini-2.5-flash"
AltModel == "gemini-1.5-flash"

\* apiKey = FALSE: the constructor returned before creating this.model.
\* Both model names default to a non-empty name, so a configuration without
\* distinct fallback is one that names the same model twice.
Configs ==
  { [apiKey |-> k, model |-> m, fallbackModel |-> f] :
      k \in BOOLEAN, m \in {PrimaryModel, AltModel}, f \in {PrimaryModel, AltModel} }

\* --------------------------------- GeminiService.analyzeTradingDataJSON
NoResult == [kind |-> "none", text |-> <<>>, value |-> JUndef,
             error |-> "", model |-> ""]
AiResult(value, model) ==
  [kind |-> "ai", text |-> <<>>, value |-> value, error |-> "", model |-> model]
RawResult(text, error, model) ==
  [kind |-> "raw", text |-> text, value |-> JUndef, error |-> error, model |-> model]
ErrorResult(error) ==
  [kind |-> "error", text |-> <<>>, value |-> JUndef, error |-> error, model |-> ""]
Thrown ==
  [kind |-> "thrown", text |-> <<>>, value |-> JUndef,
   error |-> "Gemini service is not properly initialized", model |-> ""]

\* log: the prompts sent so far, in order; lang: the caller's lang argument;
\* text: the local `text` of the primary flow while it is in scope
LlmIdle == [stage |-> "idle", log |-> <<>>, lang |-> "", text |-> <<>>]
\* the keys of the payload object that buildTradingAnalysisJSONPrompt puts in
\* the prompt's JSON data block (period is present for every validated body)
buildTradingAnalysisJSONPrompt == {"trades", "period", "marketSummary"}

\* one generateContent call: the model asked, whether the strict reprompt
\* was used, the language hint and the keys of the prompt's data block
Call(model, strict, lang) ==
  [model |-> model, strict |-> strict, lang |-> lang,
   payload |-> buildTradingAnalysisJSONPrompt]

\* the schema check left out after JSON.parse
ParsesAndValidates_ParseOnly(text) == JSONParse(text).ok

\* JSON.parse followed by validateAiResult: the reply is usable as `ai`
ParsesAndValidates(text) ==
  LET parsed == JSONParse(text) IN parsed.ok /\ validateAiResult(parsed.value)

\* the message of the error thrown by the parse / validate block
ParseErrorMessage(text) ==
  IF JSONParse(text).ok THEN "schema_reason" ELSE "SyntaxError"

\* entry of analyzeTradingDataJSON up to its first await
ServiceEnter(lang) ==
  IF ~cfg.apiKey
  THEN /\ llm' = [stage |-> "returned", log |-> <<>>, lang |-> lang, text |-> <<>>]
       /\ aiResult' = Thrown
  ELSE /\ llm' = [stage |-> "first", log |-> <<Call(cfg.model, FALSE, lang)>>,
                  lang |-> lang, text |-> <<>>]
       /\ aiResult' = NoResult

\* the fallback tried even when it names the primary model
EnterFallback_SameModelToo ==
  IF cfg.fallbackModel # ""
  THEN /\ llm' = [llm EXCEPT !.stage = "fallback", !.text = <<>>,
                      !.log = Append(llm.log, Call(cfg.fallbackModel, FALSE, llm.lang))]
       /\ aiResult' = NoResult
  ELSE /\ llm' = [llm EXCEPT !.stage = "returned", !.text = <<>>]
       /\ aiResult' = ErrorResult("json_analysis_failed")

\* the outer catch: one call to a distinct fallback model, or the failure value
EnterFallback ==
  IF cfg.fallbackModel # "" /\ cfg.model # cfg.fallbackModel
  THEN /\ llm' = [llm EXCEPT !.stage = "fallback", !.text = <<>>,
                      !.log = Append(llm.log, Call(cfg.fallbackModel, FALSE, llm.lang))]
       /\ aiResult' = NoResult
  ELSE /\ llm' = [llm EXCEPT !.stage = "returned", !.text = <<>>]
       /\ aiResult' = ErrorResult("json_analysis_failed")

Return(result) ==
  /\ llm' = [llm EXCEPT !.stage = "returned", !.text = <<>>]
  /\ aiResult' = result

\* the first tryOnce settles
FirstReply(texts) ==
  /\ llm.stage = "first"
  /\ \E out \in CallOutcomes(texts) :
       IF out.k = "reject" THEN EnterFallback
       ELSE IF ParsesAndValidates(out.text)
            THEN Return(AiResult(JSONParse(out.text).value, cfg.model))
            ELSE /\ llm' = [llm EXCEPT !.stage = "second", !.text = out.text,
                                !.log = Append(llm.log, Call(cfg.model, TRUE, llm.lang))]
                 /\ aiResult' = NoResult
  /\ UNCHANGED <<cfg, ctlVars, coerceVars, utilVars, moreVars, gatewayVars, poolVars, flowVars>>

\* the reprompt (strictPrompt) settles
SecondReply(texts) ==
  /\ llm.stage = "second"
  /\ \E out \in CallOutcomes(texts) :
       IF out.k = "reject" THEN EnterFallback
       ELSE IF ParsesAndValidates(out.text)
            THEN Return(AiResult(JSONParse(out.text).value, cfg.model))
            ELSE Return(RawResult(out.text, ParseErrorMessage(out.text), cfg.model))
  /\ UNCHANGED <<cfg, ctlVars, coerceVars, utilVars, moreVars, gatewayVars, poolVars, flowVars>>

\* the fallback model's call settles
FallbackReply(texts) ==
  /\ llm.stage = "fallback"
  /\ \E out \in CallOutcomes(texts) :
       IF out.k = "reject" THEN Return(ErrorResult("json_analysis_failed"))
       ELSE IF ParsesAndValidates(out.text)
            THEN Return(AiResult(JSONParse(out.text).value, cfg.fallbackModel))
            ELSE Return(RawResult(out.text, "invalid_json", cfg.fallbackModel))
  /\ UNCHANGED <<cfg, ctlVars, coerceVars, utilVars, moreVars, gatewayVars, poolVars, flowVars>>

\* ------------------------------------------------------------- requests
\* A trade of the request body: id and profit may be absent, symbol = <<>>
\* stands for an absent or empty symbol.
NoId == [k |-> "absent", s |-> <<>>]
Id(s) == [k |-> "str", s |-> s]
NoProfit == [k |-> "absent", v |-> 0]
Profit(v) == [k |-> "num", v |-> v]
Trade(id, symbol, profit) == [id |-> id, symbol |-> symbol, profit |-> profit]

EurusdPlus == <<" ","e","u","r","u","s","d","+">>
XAUUSD == <<"X","A","U","U","S","D">>
USOUSD == <<"U","S","O","U","S","D">>

TradePool ==
  { Trade(Id(<<"t","1">>), EurusdPlus, Profit(455)),
    Trade(Id(<<"t","2">>), XAUUSD, Profit(-200)),
    Trade(NoId, <<>>, NoProfit),
    Trade(Id(<<>>), <<>>, Profit(0)) }

SymbolPool == { EurusdPlus }

RECURSIVE SeqsUpTo(_, _)
SeqsUpTo(S, n) ==
  IF n = 0 THEN { <<>> }
  ELSE LET shorter == SeqsUpTo(S, n - 1)
       IN shorter \cup { Append(q, x) : q \in shorter, x \in S }

Request(endpoint, symbols, trades, from, to, timespan, schema) ==
  [endpoint |-> endpoint, symbols |-> symbols, trades |-> trades,
   from |-> from, to |-> to, timespan |-> timespan, schema |-> schema,
   lang |-> "", includeRaw |-> TRUE]

NoRequest == Request("", <<>>, <<>>, MissingDate, MissingDate, "", "")

\* period ends to probe each cap from both sides (hours after `from`)
ToPool ==
  { Instant(-24), Instant(1),
    Instant(7 * HoursPerDay), Instant(7 * HoursPerDay + 1),
    Instant(30 * HoursPerDay), Instant(30 * HoursPerDay + 1),
    Instant(365 * HoursPerDay), Instant(365 * HoursPerDay + 1),
    InvalidDate, MissingDate }

\* journal-rich bodies over a one-day period
JournalRequests ==
  { Request("analyzePeriod", syms, trades, Instant(0), Instant(24), "", schema) :
      syms \in SeqsUpTo(SymbolPool, MaxSymbols),
      trades \in SeqsUpTo(TradePool, MaxTrades),
      schema \in {""} }
  \cup
  { Request("analyzePeriod", <<XAUUSD>>, <<>>, Instant(0), Instant(24), "", schema) :
      schema \in {"v1", "v2"} }
  \cup
  { Request("analyzePeriod", <<USOUSD>>, <<>>, Instant(0), Instant(24), "", "") }

\* one-trade bodies and OHLC queries over every period of ToPool
RangeRequests ==
  { Request(e, <<>>, <<Trade(Id(<<"t","1">>), EurusdPlus, Profit(455))>>, f, t, ts, "") :
      e \in {"analyzePeriod"}, f \in {Instant(0), InvalidDate, MissingDate},
      t \in ToPool, ts \in {"", "minute", "hour", "day"} }
  \cup
  { Request("getMarketOHLC", syms, <<>>, f, t, ts, "") :
      syms \in {<<>>, <<EurusdPlus>>},
      f \in {Instant(0), InvalidDate, MissingDate},
      t \in ToPool, ts \in {"", "minute", "hour", "day", "week"} }

\* ---------------------------------------------------- TradingController
CONCURRENCY == 5

Min(a, b) == IF a < b THEN a ELSE b

\* Array.from(new Set(xs)): first occurrences, in insertion order
RECURSIVE Unique(_)
Unique(xs) ==
  IF Len(xs) = 0 THEN <<>>
  ELSE LET init == Unique(SubSeq(xs, 1, Len(xs) - 1))
           last == xs[Len(xs)]
       IN IF \E i \in 1..Len(init) : init[i] = last THEN init ELSE Append(init, last)

\* the truthy entries of xs
Truthy(xs) == SelectSeq(xs, LAMBDA x : Len(x) > 0)

\* symbolSet: body.symbols first, then the trades' symbols
SymbolsOf(r) ==
  Unique(Truthy(r.symbols) \o Truthy([i \in 1..Len(r.trades) |-> r.trades[i].symbol]))

NormSymbols(symbols) == [i \in 1..Len(symbols) |-> normalizeJournalSymbol(symbols[i])]

AI_UNAVAILABLE == <<"[AI analysis temporarily unavailable; structured data below]">>

SomeCandles == <<[t |-> 0, c |-> 1]>>
FetchOutcomes ==
  { [k |-> "ok", candles |-> <<>>], [k |-> "ok", candles |-> SomeCandles],
    [k |-> "reject", candles |-> <<>>] }

\* stored AIAnalysis rows; hasPatterns: the stored response names a weakness
\* or a recommendation
SeedAnalyses == << [id |-> "a1", model |-> PrimaryModel, tradeId |-> "", hasPatterns |-> TRUE] >>

Ratio(n, d) == [num |-> n, den |-> d]
NoMetrics ==
  [tradesCount |-> 0, wins |-> 0, winRate |-> Ratio(0, 1), totalProfit |-> 0,
   avgProfit |-> Ratio(0, 1)]
NoMeta == [model |-> "", coerced |-> FALSE]

NoResponse ==
  [status |-> 0, fields |-> {}, textSummary |-> <<>>, symbols |-> <<>>,
   metrics |-> NoMetrics, ai |-> JUndef, aiLang |-> "", candles |-> <<>>]

\* handleError(res, message, 400) and the global error handler's 500
ErrorResponse(status) == [NoResponse EXCEPT !.status = status, !.fields = {"error"}]

ControllerIdle ==
  /\ req = NoRequest
  /\ pc = "idle"
  /\ idx = 0
  /\ workers = <<>>
  /\ candlesBySymbol = <<>>
  /\ enrichedTrades = <<>>
  /\ news = "undefined"
  /\ macroData = "empty"
  /\ singleTradeId = NoId
  /\ personalContext = "undefined"
  /\ calls = {}
  /\ aiMeta = NoMeta
  /\ resp = NoResponse
  /\ aiAnalysis = SeedAnalyses

ServiceIdle(configs) ==
  /\ cfg \in configs
  /\ llm = LlmIdle
  /\ aiResult = NoResult

CoerceIdle ==
  /\ rawInput = <<>>
  /\ coerced = NoCoerced
  /\ cpc = "idle"

\* ----------------------------------------------- controller: pure helpers
IdString(t) == IF t.id.k = "str" THEN t.id.s ELSE <<>>

\* lines 397-404: the one distinct non-empty id among the trades, if any
SingleTradeIdOf(trades) ==
  LET unique == Unique(Truthy([i \in 1..Len(trades) |-> IdString(trades[i])]))
  IN IF Len(unique) = 1 THEN Id(unique[1]) ELSE NoId

\* Number(t.profit || 0)
ProfitOf(t) == IF t.profit.k = "num" THEN t.profit.v ELSE 0

RECURSIVE SumProfits(_, _)
SumProfits(trades, n) ==
  IF n = 0 THEN 0 ELSE SumProfits(trades, n - 1) + ProfitOf(trades[n])

\* wins counted with p >= 0 instead of p > 0
MetricsOf_WinsIncludeZero(trades) ==
  LET tradesCount == Len(trades)
      totalProfit == SumProfits(trades, Len(trades))
      wins == Cardinality({ i \in 1..Len(trades) : ProfitOf(trades[i]) >= 0 })
  IN [tradesCount |-> tradesCount, wins |-> wins,
      winRate |-> IF tradesCount # 0 THEN Ratio(wins, tradesCount) ELSE Ratio(0, 1),
      totalProfit |-> totalProfit,
      avgProfit |-> IF tradesCount # 0 THEN Ratio(totalProfit, tradesCount)
                    ELSE Ratio(0, 1)]

\* lines 545-550
MetricsOf(trades) ==
  LET tradesCount == Len(trades)
      totalProfit == SumProfits(trades, Len(trades))
      wins == Cardinality({ i \in 1..Len(trades) : ProfitOf(trades[i]) > 0 })
  IN [tradesCount |-> tradesCount, wins |-> wins,
      winRate |-> IF tradesCount # 0 THEN Ratio(wins, tradesCount) ELSE Ratio(0, 1),
      totalProfit |-> totalProfit,
      avgProfit |-> IF tradesCount # 0 THEN Ratio(totalProfit, tradesCount)
                    ELSE Ratio(0, 1)]

\* lines 197-209: a trade gets an indicators snapshot when its symbol has candles
Enrich(trades, candles) ==
  [i \in 1..Len(trades) |->
     LET sym == normalizeJournalSymbol(trades[i].symbol)
     IN [trade |-> trades[i],
         hasIndicators |-> /\ Len(trades[i].symbol) > 0
                           /\ sym \in DOMAIN candles
                           /\ Len(candles[sym]) > 0]]

\* lines 407-409 (no Accept-Language header)
LangOf(r) == IF r.lang = "en" THEN "en" ELSE "ru"

\* lines 412-415
SchemaOf(r) == IF r.schema = "v1" THEN "v1" ELSE "v2"

\* rawText tested with !== undefined: an empty reply is coerced too
UsableRaw_AnyRaw(result) == result.kind = "raw"

\* line 527: aiResult?.rawText is truthy
UsableRaw(result) == result.kind = "raw" /\ Len(result.text) > 0

\* lines 518-563: what the controller makes of the service's result
AssembleResponse(r, result, candles) ==
  LET useAi == result.kind = "ai"
      useRaw == UsableRaw(result)
      c == coerceTextToV2(result.text)
  IN [status |-> 200,
      fields |-> {"textSummary", "structuredInsights", "ai", "aiLang"}
                   \cup (IF r.includeRaw THEN {"candles"} ELSE {}),
      textSummary |-> IF useAi THEN Get(result.value, "summary").s
                      ELSE IF useRaw THEN OrElse(c.summary, result.text)
                      ELSE AI_UNAVAILABLE,
      symbols |-> NormSymbols(SymbolsOf(r)),
      metrics |-> MetricsOf(r.trades),
      ai |-> IF useAi THEN result.value
             ELSE IF useRaw THEN CoercedValue(c)
             ELSE JObj(<<>>),
      aiLang |-> LangOf(r),
      candles |-> IF r.includeRaw THEN candles ELSE <<>>]

MetaOf(result) ==
  IF result.kind = "ai" THEN [model |-> result.model, coerced |-> FALSE]
  ELSE IF UsableRaw(result)
       THEN [model |-> result.model, coerced |-> TRUE]
       ELSE NoMeta

\* ------------------------------------------------- controller: the handlers
Reject(status) ==
  /\ resp' = ErrorResponse(status)
  /\ pc' = "done"

\* asyncHandler passes a rejection to next(err); the application's error
\* handler answers 500 whatever the error carries
HandlerRejected == Reject(500)

\* analyzePeriod from its entry to the await on Promise.all(workers)
analyzePeriodStart(r) ==
  LET symbols == SymbolsOf(r)
      timespan == EffectiveTimespan(r.timespan)
      days == diffDaysUTC(r.from, r.to)
      nw == Min(CONCURRENCY, Len(symbols))
  IN IF \/ Len(symbols) = 0
        \/ r.from.k = "missing" \/ r.to.k = "missing"
        \/ days = DAYS_NAN
        \/ days > MAX_RANGE_DAYS[timespan]
     THEN Reject(400) /\ UNCHANGED <<idx, workers, calls, fetchLog>>
     ELSE /\ workers' = [w \in 1..nw |-> [st |-> "await", i |-> w - 1]]
          /\ fetchLog' = [w \in 1..nw |-> [w |-> w, i |-> w - 1]]
          /\ idx' = nw
          /\ calls' = {"polygon"}
          /\ pc' = "candles"
          /\ UNCHANGED resp

\* getMarketOHLC from its entry to the await on getForexAggregates
getMarketOHLCStart(r) ==
  LET symbol == IF Len(r.symbols) > 0 THEN Trim(r.symbols[1]) ELSE <<>>
      timespan == EffectiveTimespan(r.timespan)
      days == diffDaysUTC(r.from, r.to)
  IN IF \/ Len(symbol) = 0 \/ r.from.k = "missing" \/ r.to.k = "missing"
        \/ timespan \notin {"minute", "hour", "day"}
        \/ days = DAYS_NAN
        \/ days > MAX_RANGE_DAYS[timespan]
     THEN Reject(400) /\ UNCHANGED <<idx, workers, calls, fetchLog>>
     ELSE /\ calls' = {"polygon"}
          /\ pc' = "ohlc"
          /\ UNCHANGED <<idx, workers, resp, fetchLog>>

Receive(reqs) ==
  /\ pc = "idle"
  /\ \E r \in reqs :
       /\ req' = r
       /\ IF r.endpoint = "analyzePeriod" THEN analyzePeriodStart(r)
          ELSE getMarketOHLCStart(r)
  /\ UNCHANGED <<candlesBySymbol, enrichedTrades, news, macroData, singleTradeId,
                 personalContext, aiMeta, aiAnalysis, llmVars, coerceVars, utilVars,
                 moreVars, gatewayVars, flowVars>>

\* getMarketOHLC: the fetch settles; a rejection reaches the global handler
OhlcDone(fetched) ==
  /\ pc = "ohlc"
  /\ \E out \in fetched :
       IF out.k = "reject" THEN HandlerRejected
       ELSE /\ pc' = "done"
            /\ resp' = [NoResponse EXCEPT
                            !.status = 200,
                            !.fields = {"symbol", "timespan", "from", "to", "candles"},
                            !.symbols = <<normalizeJournalSymbol(Trim(req.symbols[1]))>>,
                            !.candles = out.candles]
  /\ UNCHANGED <<req, idx, workers, candlesBySymbol, enrichedTrades, news,
                 macroData, singleTradeId, personalContext, calls, aiMeta,
                 aiAnalysis, llmVars, coerceVars, utilVars, moreVars, gatewayVars, poolVars, flowVars>>

AllDone(ws) == \A w \in DOMAIN ws : ws[w].st = "done"

\* runWorker: one getForexAggregates settles.  A rejection rejects
\* Promise.all and the handler; a result is stored and the worker takes the
\* next index.  When the last worker ends, the handler goes on to enrich the
\* trades and asks for the news digest.
FetchDone(w, fetched) ==
  /\ w \in DOMAIN workers
  /\ workers[w].st = "await"
  /\ \E out \in fetched :
       IF out.k = "reject"
       THEN /\ workers' = [workers EXCEPT ![w].st = "failed"]
            /\ IF pc = "candles" THEN HandlerRejected ELSE UNCHANGED <<pc, resp>>
            /\ UNCHANGED <<idx, candlesBySymbol, enrichedTrades, calls, fetchLog>>
       ELSE LET symbols == SymbolsOf(req)
                norm == normalizeJournalSymbol(symbols[workers[w].i + 1])
                stored == (norm :> out.candles) @@ candlesBySymbol
                ws == [workers EXCEPT
                         ![w] = IF idx < Len(symbols)
                                THEN [st |-> "await", i |-> idx]
                                ELSE [st |-> "done", i |-> idx]]
            IN /\ candlesBySymbol' = stored
               /\ idx' = idx + 1
               /\ workers' = ws
               /\ fetchLog' = IF idx < Len(symbols)
                               THEN Append(fetchLog, [w |-> w, i |-> idx])
                               ELSE fetchLog
               /\ IF pc = "candles" /\ AllDone(ws)
                  THEN /\ enrichedTrades' = Enrich(req.trades, stored)
                       /\ calls' = calls \cup {"news"}
                       /\ pc' = "news"
                  ELSE UNCHANGED <<enrichedTrades, calls, pc>>
               /\ UNCHANGED resp
  /\ UNCHANGED <<req, news, macroData, singleTradeId, personalContext, aiMeta,
                 aiAnalysis, llmVars, coerceVars, utilVars, moreVars, gatewayVars,
                 flowVars>>

\* lines 395-428: after the macro step, up to the await on the history read
StartPersonalization ==
  /\ singleTradeId' = SingleTradeIdOf(req.trades)
  /\ calls' = calls \cup {"history"}
  /\ pc' = "history"

\* getNewsDigest settles; then the macro read-through starts
NewsDone(outcomes) ==
  /\ pc = "news"
  /\ \E out \in outcomes :
       news' = IF out = "digest" THEN "digest" ELSE "undefined"
  /\ calls' = calls \cup {"macroDb"}
  /\ pc' = "macroDb"
  /\ UNCHANGED <<req, idx, workers, candlesBySymbol, enrichedTrades, macroData,
                 singleTradeId, personalContext, aiMeta, resp, aiAnalysis,
                 llmVars, coerceVars, utilVars, moreVars, gatewayVars, poolVars, flowVars>>

\* loadMacroDataFromDb settles
MacroDbDone(outcomes) ==
  /\ pc = "macroDb"
  /\ \E out \in outcomes :
       CASE out = "data" -> macroData' = "db" /\ StartPersonalization
         [] out = "none" -> /\ calls' = calls \cup {"fred"}
                            /\ pc' = "fred"
                            /\ UNCHANGED <<macroData, singleTradeId>>
         [] out = "throw" -> macroData' = "empty" /\ StartPersonalization
  /\ UNCHANGED <<req, idx, workers, candlesBySymbol, enrichedTrades, news,
                 personalContext, aiMeta, resp, aiAnalysis, llmVars, coerceVars, utilVars,
                 moreVars, gatewayVars, poolVars, flowVars>>

\* the macro step without its try/catch: a FRED failure rejects the handler
FredDone_Uncaught(outcomes) ==
  /\ pc = "fred"
  /\ \E out \in outcomes :
       IF out = "fetched"
       THEN /\ calls' = calls \cup {"persist"}
            /\ pc' = "persist"
            /\ UNCHANGED <<macroData, singleTradeId, resp>>
       ELSE HandlerRejected /\ UNCHANGED <<macroData, singleTradeId, calls>>
  /\ UNCHANGED <<req, idx, workers, candlesBySymbol, enrichedTrades, news,
                 personalContext, aiMeta, aiAnalysis, llmVars, coerceVars,
                 utilVars, moreVars, gatewayVars, poolVars, flowVars>>

\* fredService.getMacroDataUS settles
FredDone(outcomes) ==
  /\ pc = "fred"
  /\ \E out \in outcomes :
       IF out = "fetched"
       THEN /\ calls' = calls \cup {"persist"}
            /\ pc' = "persist"
            /\ UNCHANGED <<macroData, singleTradeId>>
       ELSE macroData' = "empty" /\ StartPersonalization
  /\ UNCHANGED <<req, idx, workers, candlesBySymbol, enrichedTrades, news,
                 personalContext, aiMeta, resp, aiAnalysis, llmVars, coerceVars, utilVars,
                 moreVars, gatewayVars, poolVars, flowVars>>

\* persistMacroData settles, either way the fetched data is used
PersistDone ==
  /\ pc = "persist"
  /\ macroData' = "fetched"
  /\ StartPersonalization
  /\ UNCHANGED <<req, idx, workers, candlesBySymbol, enrichedTrades, news,
                 personalContext, aiMeta, resp, aiAnalysis, llmVars, coerceVars, utilVars,
                 moreVars, gatewayVars, poolVars, flowVars>>

\* the history read settles; then the service is called
HistoryDone(outcomes) ==
  /\ pc = "history"
  /\ \E out \in outcomes :
       personalContext' =
         IF out = "rows" /\ \E i \in 1..Len(aiAnalysis) : aiAnalysis[i].hasPatterns
         THEN "context" ELSE "undefined"
  /\ calls' = calls \cup {"llm"}
  /\ ServiceEnter(LangOf(req))
  /\ pc' = "llm"
  /\ UNCHANGED <<req, idx, workers, candlesBySymbol, enrichedTrades, news,
                 macroData, singleTradeId, aiMeta, resp, aiAnalysis, cfg,
                 coerceVars, utilVars, moreVars, gatewayVars, poolVars, flowVars>>

\* the service call settles: the response is assembled and sent
Respond ==
  /\ pc = "llm"
  /\ llm.stage = "returned"
  /\ resp' = AssembleResponse(req, aiResult, candlesBySymbol)
  /\ aiMeta' = MetaOf(aiResult)
  /\ pc' = "done"
  /\ UNCHANGED <<req, idx, workers, candlesBySymbol, enrichedTrades, news,
                 macroData, singleTradeId, personalContext, calls, aiAnalysis,
                 llmVars, coerceVars, utilVars, moreVars, gatewayVars, poolVars, flowVars>>

\* ------------------------------------------- the utilities before any use
\* normalized / polygon: the results of normalizeJournalSymbol and
\* mapToPolygonForexTicker; again / polygonAgain: the same applied to them
NoMapped ==
  [done |-> FALSE, normalized |-> <<>>, again |-> <<>>, polygon |-> <<>>,
   polygonAgain |-> <<>>]

\* err: the failure caught last; code / reason: the ErrorHandler thrown;
\* delays: the backoff sleeps so far; log: the outcome of each fetchJson
NoFailure == [kind |-> "none", status |-> 0, msg |-> <<>>]
PolygonIdle ==
  [stage |-> "idle", attempt |-> 0, err |-> NoFailure, code |-> 0,
   reason |-> "", delays |-> <<>>, log |-> <<>>]

NoUpsert == [stage |-> "idle", calls |-> 0, seriesId |-> "", date |-> 0,
             value |-> 0, revisionSeq |-> 0]

IndicatorsIdle == [op |-> "idle", candles |-> <<>>, arg |-> 0, out |-> <<>>]

\* no utility applied
NoCall == [op |-> "idle", args |-> <<>>, out |-> <<>>]

\* the gateway before any call: both tiers empty, no Redis, no API key
MaxCalls == 2
NoAggregates ==
  [pc |-> "idle", args |-> <<>>, key |-> <<>>, pageUrl |-> <<>>, pages |-> 0,
   candles |-> <<>>, requests |-> <<>>, links |-> <<>>, hit |-> "none",
   expires |-> -1, lookedAt |-> -1, wroteAt |-> -1, after |-> {}, result |-> <<>>]
NoWorld == [redis |-> FALSE, apiKey |-> <<>>, lastPage |-> 1, link |-> "query",
            slots |-> {}, queries |-> {}, instants |-> {}]
GatewayIdle ==
  /\ agg = [c \in 1..MaxCalls |-> NoAggregates]
  /\ cache = {}
  /\ redis = {}
  /\ clock = 0
  /\ world = NoWorld

\* no digest asked, empty news tables, the default dispatcher, no macro step
NoDigest ==
  [pc |-> "idle", enabled |-> FALSE, list |-> <<>>, idx |-> 0, workers |-> <<>>,
   log |-> <<>>, cached |-> {}, stored |-> {}, out |-> {}, failed |-> {}]
NoMacroFlow ==
  [pc |-> "idle", n |-> 0, from |-> 0, to |-> 0, series |-> {}, readFailed |-> {},
   persistFailed |-> {}, source |-> "none", macroData |-> [t |-> "undef"],
   fetched |-> [t |-> "undef"], miss |-> FALSE,
   prev |-> [n |-> 0, from |-> 0, to |-> 0, source |-> "none", fetched |-> [t |-> "undef"],
             miss |-> FALSE, persistFailed |-> {}]]
FlowIdle ==
  /\ fetchLog = <<>>
  /\ digest = NoDigest
  /\ newsArticle = {}
  /\ newsSymbolIndex = <<>>
  /\ writers = <<>>
  /\ dispatcher = "default"
  /\ tries = <<>>
  /\ macroFlow = NoMacroFlow

UtilIdle ==
  /\ journalSymbol = <<>>
  /\ mapped = NoMapped
  /\ pg = PolygonIdle
  /\ macroObservation = {}
  /\ macroLatest = {}
  /\ upsert = NoUpsert
  /\ ind = IndicatorsIdle
  /\ call = NoCall
  /\ GatewayIdle
  /\ FlowIdle

\* --------------------------------------------------------- specifications
\* What the surroundings of one request can do: the requests that arrive and
\* the ways each awaited call can settle.
NewsOutcomes == {"digest", "throw"}
MacroDbOutcomes == {"data", "none", "throw"}
FredOutcomes == {"fetched", "throw"}
HistoryOutcomes == {"rows", "throw"}

OhlcSample ==
  { Request("getMarketOHLC", <<EurusdPlus>>, <<>>, Instant(0), Instant(24), ts, "") :
      ts \in {"", "hour"} }

\* journal-rich requests, every outcome of every step
PipelineTexts == { V1OnlyText, FreeText, EmptyText }
PipelineEnv ==
  [reqs |-> JournalRequests \cup OhlcSample, texts |-> PipelineTexts,
   fetch |-> FetchOutcomes, news |-> NewsOutcomes, macroDb |-> MacroDbOutcomes,
   fred |-> FredOutcomes, history |-> HistoryOutcomes]

\* every period of ToPool; the steps after validation settle one way each,
\* except the candle fetch and the model calls
RangeEnv ==
  [reqs |-> RangeRequests, texts |-> { V1OnlyText, EmptyText },
   fetch |-> { o \in FetchOutcomes : o.k = "reject" \/ Len(o.candles) > 0 },
   news |-> {"digest"}, macroDb |-> {"none"}, fred |-> {"fetched"},
   history |-> {"rows"}]

NoKey == [apiKey |-> FALSE, model |-> PrimaryModel, fallbackModel |-> AltModel]
KeyWithFallback == [apiKey |-> TRUE, model |-> PrimaryModel, fallbackModel |-> AltModel]

Init ==
  /\ ControllerIdle
  /\ ServiceIdle({NoKey, KeyWithFallback})
  /\ CoerceIdle
  /\ UtilIdle

InitRange ==
  /\ ControllerIdle
  /\ ServiceIdle({KeyWithFallback})
  /\ CoerceIdle
  /\ UtilIdle

InitLLM ==
  /\ ControllerIdle
  /\ ServiceIdle(Configs)
  /\ CoerceIdle
  /\ UtilIdle

Step(env) ==
  \/ Receive(env.reqs)
  \/ OhlcDone(env.fetch)
  \/ \E w \in 1..CONCURRENCY : FetchDone(w, env.fetch)
  \/ NewsDone(env.news)
  \/ MacroDbDone(env.macroDb)
  \/ FredDone(env.fred)
  \/ PersistDone
  \/ HistoryDone(env.history)
  \/ FirstReply(env.texts)
  \/ SecondReply(env.texts)
  \/ FallbackReply(env.texts)
  \/ Respond

Next == Step(PipelineEnv)

Spec == Init /\ [][Next]_vars

NextRange == Step(RangeEnv)

SpecRange == InitRange /\ [][NextRange]_vars

\* the service on its own, over every reply text
Invoke ==
  /\ llm.stage = "idle"
  /\ \E lang \in {"ru", "en"} : ServiceEnter(lang)
  /\ UNCHANGED <<cfg, ctlVars, coerceVars, utilVars, moreVars, gatewayVars, poolVars, flowVars>>

NextLLM ==
  \/ Invoke
  \/ FirstReply(AllReplyTexts)
  \/ SecondReply(AllReplyTexts)
  \/ FallbackReply(AllReplyTexts)

SpecLLM == InitLLM /\ [][NextLLM]_vars

\* ------------------------------------------------- statements about the code
IsEmptyObject(v) == v.t = "obj" /\ DOMAIN v.f = {}

Analyzed == req.endpoint = "analyzePeriod" /\ pc = "done" /\ resp.status = 200

\* the metrics the submitted trades call for, counted from the request alone
RECURSIVE TotalFrom(_, _)
TotalFrom(trades, i) ==
  IF i > Len(trades) THEN 0
  ELSE (IF trades[i].profit.k = "num" THEN trades[i].profit.v ELSE 0)
       + TotalFrom(trades, i + 1)

SameRatio(q, n, d) == q.den # 0 /\ q.num * d = n * q.den

MetricsMatch(m, trades) ==
  LET n == Len(trades)
      won == { i \in 1..n : trades[i].profit.k = "num" /\ trades[i].profit.v > 0 }
      total == TotalFrom(trades, 1)
  IN /\ m.tradesCount = n
     /\ m.wins = Cardinality(won)
     /\ m.totalProfit = total
     /\ n > 0 => SameRatio(m.winRate, Cardinality(won), n) /\ SameRatio(m.avgProfit, total, n)
     /\ n = 0 => m.winRate.num = 0 /\ m.avgProfit.num = 0

LlmFailedCompletely ==
  \/ aiResult.kind \in {"thrown", "error"}
  \/ aiResult.kind = "raw" /\ Len(aiResult.text) = 0

\* C2: whenever the LLM step fails completely (the service throws, as it
\* does without an API key, or returns neither a validated object nor raw
\* text), analyzePeriod answers with a success response whose textSummary is
\* the fixed fallback sentence and whose ai is the empty object, and the
\* metrics are those of the submitted trades.
C2_FallbackSentenceOnLlmFailure ==
  (req.endpoint = "analyzePeriod" /\ pc = "done" /\ llm.stage = "returned"
     /\ LlmFailedCompletely)
  => /\ resp.status = 200
     /\ resp.textSummary = AI_UNAVAILABLE
     /\ IsEmptyObject(resp.ai)
     /\ MetricsMatch(resp.metrics, req.trades)

\* the fallback model answered with an empty text after the primary failed
C2_Witness ==
  /\ Analyzed
  /\ aiResult.kind = "raw"
  /\ Len(aiResult.text) = 0
  /\ aiResult.error = "invalid_json"
  /\ resp.textSummary = AI_UNAVAILABLE
  /\ Len(req.trades) > 0

\* ceil((to - from) / 24h), from the request alone
CeilDays(r) ==
  LET diff == r.to.h - r.from.h
  IN CHOOSE d \in -2..367 : d * 24 >= diff /\ (d - 1) * 24 < diff

CapOf(timespan) ==
  CASE timespan = "minute" -> 7
    [] timespan = "hour" -> 30
    [] timespan \in {"day", ""} -> 365

NamesSymbol(r) ==
  \/ \E i \in 1..Len(r.symbols) : \E j \in 1..Len(r.symbols[i]) : ~IsSpace(r.symbols[i][j])
  \/ \E i \in 1..Len(r.trades) : Len(r.trades[i].symbol) > 0

\* C3: analyzePeriod and getMarketOHLC answer 400 without any market-data,
\* news, macro, storage or LLM call whenever the day count of the request
\* exceeds the cap of its timespan (minute 7, hour 30, day 365); a request
\* whose day count is at most the cap is never rejected for its range size.
C3_RangeCapBeforeAnyCall ==
  (pc # "idle" /\ req.from.k = "ok" /\ req.to.k = "ok"
     /\ req.timespan \in {"", "minute", "hour", "day"})
  => /\ CeilDays(req) > CapOf(req.timespan)
          => /\ pc = "done"
             /\ resp.status = 400
             /\ calls = {}
             /\ llm.stage = "idle"
             /\ llm.log = <<>>
     /\ (CeilDays(req) <= CapOf(req.timespan) /\ NamesSymbol(req))
          => resp.status # 400

\* a minute request one hour over seven days was turned away
C3_Witness ==
  /\ pc = "done"
  /\ req.endpoint = "analyzePeriod"
  /\ req.timespan = "minute"
  /\ req.from = Instant(0)
  /\ req.to = Instant(7 * 24 + 1)
  /\ resp.status = 400
  /\ calls = {}

\* C4: in every analyzePeriod response the metrics come from the submitted
\* trades only (count, wins = profit > 0, total with a missing profit as 0,
\* winRate and avgProfit as quotients by the count, 0 without trades),
\* whatever the candle, news, macro and LLM steps did; one trade with profit
\* 45.5 gives {1, 1, 1, 45.5, 45.5}.
C4_MetricsFromTradesOnly ==
  Analyzed
  => /\ MetricsMatch(resp.metrics, req.trades)
     /\ (Len(req.trades) = 1 /\ req.trades[1].profit = Profit(455))
          => resp.metrics = [tradesCount |-> 1, wins |-> 1, winRate |-> Ratio(1, 1),
                             totalProfit |-> 455, avgProfit |-> Ratio(455, 1)]

\* a win and a loss were summed while news and the model call had failed
C4_Witness ==
  /\ Analyzed
  /\ Len(req.trades) = 2
  /\ resp.metrics.wins = 1
  /\ resp.metrics.totalProfit = 255
  /\ news = "undefined"
  /\ aiResult.kind = "error"

Invalid(text) == ~(JSONParse(text).ok /\ validateAiResult(JSONParse(text).value))

PrimaryCalls == { i \in 1..Len(llm.log) : llm.log[i].model = cfg.model }

\* C5: in analyzeTradingDataJSON an invalid first reply of the primary model
\* is followed by exactly one reprompt (same prompt plus the strict JSON
\* instruction) to the same model; a valid second reply is returned as the
\* structured result without coercion flag, an invalid one is returned as
\* rawText without throwing, and the primary model is never asked a third
\* time.
C5_OneRepromptThenRawText ==
  /\ Cardinality(PrimaryCalls) <= 2
  /\ Len(llm.log) >= 1 => llm.log[1] = Call(cfg.model, FALSE, llm.lang)
  /\ \A i \in 1..Len(llm.log) :
       llm.log[i].strict => i = 2 /\ llm.log[i] = Call(cfg.model, TRUE, llm.lang)
  /\ (Len(llm.log) >= 2 /\ llm.log[2].model = cfg.model) => llm.log[2].strict
  /\ llm.stage = "second" => Len(llm.log) = 2 /\ Invalid(llm.text)
  /\ (llm.stage = "returned" /\ Len(llm.log) = 1) => aiResult.kind \in {"ai", "error"}
  /\ aiResult.kind = "ai"
       => /\ validateAiResult(aiResult.value)
          /\ Len(aiResult.text) = 0
          /\ ~MetaOf(aiResult).coerced
  /\ (aiResult.kind = "raw" /\ aiResult.model = cfg.model)
       => /\ llm.stage = "returned"
          /\ Len(llm.log) = 2
          /\ llm.log[2].strict
          /\ Invalid(aiResult.text)
  /\ aiResult.kind = "thrown" => ~cfg.apiKey

\* the second reply was invalid too and came back as rawText
C5_Witness ==
  /\ llm.stage = "returned"
  /\ aiResult.kind = "raw"
  /\ aiResult.model = cfg.model
  /\ aiResult.text = FencedText
  /\ Len(llm.log) = 2

FallbackDistinct == cfg.fallbackModel # "" /\ cfg.fallbackModel # cfg.model

FallbackCalls == { i \in 1..Len(llm.log) : llm.log[i].model # cfg.model }

\* what C6 and its amendment agree on: the failure values and who is called
FallbackOutcomes ==
  /\ \A i \in FallbackCalls : FallbackDistinct /\ llm.log[i].model = cfg.fallbackModel
  /\ llm.stage = "fallback" => FallbackDistinct
  /\ (aiResult.kind = "raw" /\ aiResult.model # cfg.model)
       => /\ aiResult.model = cfg.fallbackModel
          /\ aiResult.error = "invalid_json"
          /\ Invalid(aiResult.text)
          /\ FallbackCalls # {}
  /\ aiResult.kind = "error"
       => /\ aiResult.error = "json_analysis_failed"
          /\ FallbackDistinct => FallbackCalls # {}
  /\ (aiResult.kind = "ai" /\ aiResult.model # cfg.model)
       => validateAiResult(aiResult.value) /\ FallbackCalls # {}
  /\ aiResult.kind = "thrown" => ~cfg.apiKey

\* C6 (as stated): after a transport error of a primary call, with a distinct
\* fallback model configured, the full flow (call, parse and validation, one
\* reprompt on invalid output) runs once against the fallback model;
\* otherwise, or when the fallback fails too, a failure value is returned
\* instead of throwing: 'invalid_json' when the fallback answered invalid
\* text, 'json_analysis_failed' when the call itself failed.
C6_FullFlowOnFallback ==
  /\ FallbackOutcomes
  /\ (llm.stage = "returned" /\ aiResult.kind = "raw" /\ aiResult.model # cfg.model)
       => \E i \in FallbackCalls : llm.log[i].strict

\* C6 (amended): after a transport error of a primary call, with a distinct
\* fallback model configured, exactly one call with the original prompt goes
\* to the fallback model; its reply is parsed and validated and never
\* reprompted; otherwise, or when that call fails, a failure value is
\* returned instead of throwing, with the error values as stated.
C6_SingleFallbackCall ==
  /\ FallbackOutcomes
  /\ Cardinality(FallbackCalls) <= 1
  /\ \A i \in FallbackCalls :
       i = Len(llm.log) /\ llm.log[i] = Call(cfg.fallbackModel, FALSE, llm.lang)

\* first reply invalid, reprompt rejected, fallback reply invalid
C6_Witness ==
  /\ llm.stage = "returned"
  /\ aiResult.kind = "raw"
  /\ aiResult.error = "invalid_json"
  /\ aiResult.model = AltModel
  /\ Len(llm.log) = 3

\* C7: under schema v2 (any body.schema other than 'v1') a model reply is
\* returned as the structured ai result only if validateAiResultV2 accepts
\* it.
C7_OnlyV2RepliesAreStructured ==
  (Analyzed /\ req.schema # "v1" /\ aiResult.kind = "ai")
  => validateAiResultV2(resp.ai)

\* C9: every analyzePeriod call that passes validation creates exactly one
\* AIAnalysis record and returns its id as analysisId.
C9_OneRecordPerAnalysis ==
  Analyzed
  => /\ Len(aiAnalysis) = Len(SeedAnalyses) + 1
     /\ "analysisId" \in resp.fields

IdCarriers(trades) ==
  { i \in 1..Len(trades) : trades[i].id.k = "str" /\ Len(trades[i].id.s) > 0 }

\* C10: the analysis is linked to a trade (singleTradeId is that trade's id)
\* if and only if exactly one of the submitted trades carries an id.
C10_LinkedIffOneTradeCarriesId ==
  (req.endpoint = "analyzePeriod" /\ "history" \in calls)
  => LET carriers == IdCarriers(req.trades)
     IN /\ singleTradeId # NoId <=> Cardinality(carriers) = 1
        /\ \A i \in carriers : Cardinality(carriers) = 1 => singleTradeId = req.trades[i].id

\* C11: the personalization text reaches the model: whenever it is non-empty
\* the prompt's JSON data block has a personalContext field, and when the
\* history yields no signal the field is omitted.
C11_PersonalContextReachesPrompt ==
  (req.endpoint = "analyzePeriod" /\ "llm" \in calls)
  => \A i \in 1..Len(llm.log) :
       ("personalContext" \in llm.log[i].payload) <=> (personalContext # "undefined")

\* C12: once the candles are in, a failure or unavailability of the news
\* step or of the macro step never aborts analyzePeriod: no error response is
\* sent, news stays absent and macro data empty or as fetched, and the
\* personalization, LLM and metrics steps still run before the 200 response.
C12_NewsMacroFailuresDoNotAbort ==
  (req.endpoint = "analyzePeriod" /\ "news" \in calls)
  => /\ resp.status \in {0, 200}
     /\ pc \in {"news", "macroDb", "fred", "persist", "history", "llm", "done"}
     /\ pc = "news" => news = "undefined"
     /\ pc \in {"news", "macroDb", "fred", "persist"} => macroData = "empty"
     /\ ("fred" \in calls /\ "persist" \notin calls /\ "history" \in calls)
          => macroData = "empty"
     /\ "persist" \in calls /\ "history" \in calls => macroData = "fetched"
     /\ pc = "done"
          => /\ resp.status = 200
             /\ {"macroDb", "history", "llm"} \subseteq calls
             /\ llm.stage = "returned"
             /\ MetricsMatch(resp.metrics, req.trades)

\* news threw and FRED threw after an empty storage read, and the model's
\* analysis was still returned
C12_Witness ==
  /\ Analyzed
  /\ news = "undefined"
  /\ macroData = "empty"
  /\ "fred" \in calls
  /\ "persist" \notin calls
  /\ aiResult.kind = "ai"
  /\ Len(req.trades) > 0

\* the ticker the documentation reports for a requested symbol: upper-cased,
\* trailing '+' removed, substitution table applied
ReportedTicker(s) ==
  LET n == normalizeJournalSymbol(s)
  IN IF Len(CUSTOM_MAP(n)) > 0 THEN CUSTOM_MAP(n) ELSE n

\* C16: structuredInsights.symbols and the keys of the candles mapping are
\* the normalized tickers of the requested symbols, substitution table
\* applied ('USOUSD' is reported as 'XTIUSD').
C16_ResponseNamesMappedTickers ==
  Analyzed
  => LET symbols == SymbolsOf(req)
     IN /\ resp.symbols = [i \in 1..Len(symbols) |-> ReportedTicker(symbols[i])]
        /\ DOMAIN resp.candles = { ReportedTicker(symbols[i]) : i \in 1..Len(symbols) }

\* ------------------------------------------- coercion of arbitrary raw texts
InitCoerce ==
  /\ ControllerIdle
  /\ ServiceIdle({KeyWithFallback})
  /\ rawInput \in RawTexts(MaxSegments)
  /\ coerced = NoCoerced
  /\ cpc = "input"
  /\ UtilIdle

\* the controller's raw-text branch: ai = coerceTextToV2(rawText)
Coerce ==
  /\ cpc = "input"
  /\ coerced' = coerceTextToV2(rawInput)
  /\ cpc' = "coerced"
  /\ UNCHANGED <<rawInput, ctlVars, llmVars, utilVars, moreVars, gatewayVars, poolVars, flowVars>>

NextCoerce == Coerce

SpecCoerce == InitCoerce /\ [][NextCoerce]_vars

\* a list is non-empty and holds only non-blank strings
NonEmptyListOfNonEmpty(xs) ==
  /\ Len(xs) > 0
  /\ \A i \in 1..Len(xs) : Len(Trim(xs[i])) > 0

\* C8: for every raw text, coerceTextToV2 yields non-empty summary,
\* marketContext, tradeAnalysis and psychology and non-empty lists of
\* non-empty strings, so validateAiResultV2 accepts the coerced object.
C8_CoercedAlwaysValidV2 ==
  cpc = "coerced" =>
    /\ Len(Trim(coerced.summary)) > 0
    /\ Len(Trim(coerced.marketContext)) > 0
    /\ Len(Trim(coerced.tradeAnalysis)) > 0
    /\ Len(Trim(coerced.psychology)) > 0
    /\ NonEmptyListOfNonEmpty(coerced.strengths)
    /\ NonEmptyListOfNonEmpty(coerced.weaknesses)
    /\ NonEmptyListOfNonEmpty(coerced.recommendations)
    /\ validateAiResultV2(CoercedValue(coerced))

\* a blank raw text was coerced: every field had to come from a placeholder
C8_Witness ==
  /\ cpc = "coerced"
  /\ Len(rawInput) > 0
  /\ Len(Trim(rawInput)) = 0
  /\ coerced.summary = PH_SUMMARY
  /\ coerced.recommendations = PH_RECOMMENDATIONS

\* ------------------------------------------ the symbol mapper on any symbol
MaxSymbolLen == 3

SymbolAlphabet == {"e", "U", "7", "+", ":", " ", "/"}

\* every short string over the alphabet and some symbols of journals
SymbolInputs ==
  SeqsUpTo(SymbolAlphabet, MaxSymbolLen)
    \cup { EurusdPlus, XAUUSD, USOUSD,
           <<"E","U","R","/","U","S","D">>,
           <<"E","U","R","U","S","D","+","+">>,
           <<"c",":","e","u","r","u","s","d">>,
           <<"C",":","E","U","R","U","S","D">> }

InitSymbol ==
  /\ ControllerIdle
  /\ ServiceIdle({KeyWithFallback})
  /\ CoerceIdle
  /\ journalSymbol \in SymbolInputs
  /\ mapped = NoMapped
  /\ pg = PolygonIdle
  /\ macroObservation = {}
  /\ macroLatest = {}
  /\ upsert = NoUpsert
  /\ call = NoCall
  /\ GatewayIdle
  /\ FlowIdle
  /\ ind = IndicatorsIdle

\* getForexAggregates maps the journal symbol; each function is applied once
\* more to its own result
MapSymbol ==
  /\ ~mapped.done
  /\ LET normalized == normalizeJournalSymbol(journalSymbol)
         polygon == mapToPolygonForexTicker(journalSymbol, ForexPrefix)
     IN mapped' = [done |-> TRUE,
                   normalized |-> normalized,
                   again |-> normalizeJournalSymbol(normalized),
                   polygon |-> polygon,
                   polygonAgain |-> mapToPolygonForexTicker(polygon, ForexPrefix)]
  /\ UNCHANGED <<journalSymbol, pg, macroObservation, macroLatest, upsert, ind,
                 ctlVars, llmVars, coerceVars, moreVars, gatewayVars, poolVars, flowVars>>

NextSymbol == MapSymbol

SpecSymbol == InitSymbol /\ [][NextSymbol]_vars

\* C15: symbol normalization is idempotent: normalizing a normalized symbol
\* and mapping a mapped ticker change nothing.
C15_SymbolNormalizationIdempotent ==
  mapped.done
  => /\ mapped.again = mapped.normalized
     /\ mapped.polygonAgain = mapped.polygon

\* C17 as stated: a ticker that contains ':' is returned character for
\* character.
C17_PrefixedTickerUnchanged ==
  (mapped.done /\ Includes(journalSymbol, ":"))
  => mapped.polygon = journalSymbol

\* C17: a ticker that contains ':' gets no prefix, no substitution and no
\* inner character removed: the result is the input between its first and
\* last non-blank characters, upper-cased, less one trailing '+'; an input
\* already in that form is returned character for character.
C17_PrefixedTickerOnlyNormalized ==
  (mapped.done /\ Includes(journalSymbol, ":"))
  => LET x == journalSymbol
         nonBlank == { i \in 1..Len(x) : ~IsSpace(x[i]) }
         a == CHOOSE i \in nonBlank : \A j \in nonBlank : i <= j
         c == CHOOSE i \in nonBlank : \A j \in nonBlank : j <= i
         b == IF x[c] = "+" THEN c - 1 ELSE c
         kept == IF a > b THEN <<>> ELSE SubSeq(x, a, b)
     IN /\ mapped.polygon = [i \in 1..Len(kept) |-> UpperChar(kept[i])]
        /\ (a = 1 /\ b = Len(x) /\ \A i \in 1..Len(x) : UpperChar(x[i]) = x[i])
             => mapped.polygon = x

\* a lower-case prefixed ticker came back upper-cased
C17_Witness ==
  /\ mapped.done
  /\ Includes(journalSymbol, ":")
  /\ mapped.polygon # journalSymbol
  /\ Len(mapped.polygon) = Len(journalSymbol)
  /\ Len(journalSymbol) > 2

\* ------------------------------------------ PolygonService.fetchWithRetry
\* config.api.polygon.defaults
MaxRetries == 3
BackoffBaseMs == 300

\* What one fetch meets on the wire: the AbortController's timer fires, the
\* connection fails, or a response arrives (for a 2xx, json tells whether
\* its body parses).
Aborted == [kind |-> "aborted", status |-> 0, body |-> <<>>, json |-> FALSE]
NetworkFailure == [kind |-> "network", status |-> 0, body |-> <<>>, json |-> FALSE]
Response(status, body, json) ==
  [kind |-> "response", status |-> status, body |-> body, json |-> json]

BodyPlain == <<"{","\"","s","t","a","t","u","s","\"",":","\"","E","R","R","O","R",
    "\"","}">>
BodyAborted == <<"r","e","q","u","e","s","t"," ","a","b","o","r","t","e","d">>
BodyFetchFailed == <<"u","p","s","t","r","e","a","m"," ","f","e","t","c","h"," ","f","a",
    "i","l","e","d">>

Upstreams ==
  { Aborted, NetworkFailure, Response(200, BodyPlain, TRUE),
    Response(200, BodyPlain, FALSE) }
    \cup { Response(st, body, FALSE) :
             st \in {404, 429, 500},
             body \in {<<>>, BodyPlain, BodyAborted, BodyFetchFailed} }

StatusText(status) ==
  CASE status = 404 -> <<"N","o","t"," ","F","o","u","n","d">>
    [] status = 429 -> <<"T","o","o"," ","M","a","n","y"," ","R","e","q","u","e","s","t","s">>
    [] status = 500 -> <<"I","n","t","e","r","n","a","l"," ","S","e","r","v","e","r"," ","E",
    "r","r","o","r">>
    [] OTHER -> <<"O","K">>

\* String(r.status) and parseInt of three digits
StatusDigits(n) ==
  <<Digits[(n \div 100) + 1], Digits[((n \div 10) % 10) + 1], Digits[(n % 10) + 1]>>
IsDigit(c) == \E i \in 1..Len(Digits) : Digits[i] = c
DigitValue(c) == (CHOOSE i \in 1..Len(Digits) : Digits[i] = c) - 1
ParseInt3(d) == 100 * DigitValue(d[1]) + 10 * DigitValue(d[2]) + DigitValue(d[3])

ABORT_MESSAGE == <<"T","h","i","s"," ","o","p","e","r","a","t","i","o","n"," ","w","a",
    "s"," ","a","b","o","r","t","e","d">>
FETCH_FAILED_MESSAGE == <<"f","e","t","c","h"," ","f","a","i","l","e","d">>
JSON_ERROR_MESSAGE == <<"U","n","e","x","p","e","c","t","e","d"," ","t","o","k","e","n"," ",
    "<"," ","i","n"," ","J","S","O","N"," ","a","t"," ","p","o","s",
    "i","t","i","o","n"," ","0">>

\* fetchJson: the parsed body, or the message of the error it throws
fetchJson(up) ==
  CASE up.kind = "aborted" -> [ok |-> FALSE, msg |-> ABORT_MESSAGE]
    [] up.kind = "network" -> [ok |-> FALSE, msg |-> FETCH_FAILED_MESSAGE]
    [] up.kind = "response" /\ (up.status < 200 \/ up.status > 299) ->
         [ok |-> FALSE,
          msg |-> <<"H","T","T","P"," ">> \o StatusDigits(up.status) \o <<" ">>
                    \o StatusText(up.status) \o <<" ","-"," ">> \o up.body]
    [] up.kind = "response" /\ ~up.json -> [ok |-> FALSE, msg |-> JSON_ERROR_MESSAGE]
    [] OTHER -> [ok |-> TRUE, msg |-> <<>>]

Contains(s, sub) ==
  \E i \in 1..(Len(s) - Len(sub) + 1) : SubSeq(s, i, i + Len(sub) - 1) = sub

\* /a|b|.../i.test(msg)
TestIgnoreCase(patterns, msg) == \E q \in patterns : Contains(ToLowerCase(msg), q)

TIMEOUT_PATTERNS ==
  { <<"u","n","d","_","e","r","r","_","c","o","n","n","e","c","t","_","t",
    "i","m","e","o","u","t">>,
    <<"a","b","o","r","t","e","d">>,
    <<"n","e","t","w","o","r","k"," ","t","i","m","e","o","u","t">>,
    <<"e","t","i","m","e","d","o","u","t">> }
TRANSIENT_PATTERNS ==
  { <<"f","e","t","c","h"," ","f","a","i","l","e","d">>,
    <<"e","c","o","n","n","r","e","s","e","t">>,
    <<"e","a","i","_","a","g","a","i","n">>,
    <<"e","n","o","t","f","o","u","n","d">>,
    <<"e","t","i","m","e","d","o","u","t">> }

\* msg.match(/HTTP (\d{3})/): the status of the first match, 0 for undefined
STATUS_UNDEFINED == 0
MatchStatus(msg) ==
  LET hits == { i \in 1..(Len(msg) - 7) :
                  /\ SubSeq(msg, i, i + 4) = <<"H","T","T","P"," ">>
                  /\ \A j \in 5..7 : IsDigit(msg[i + j]) }
  IN IF hits = {} THEN STATUS_UNDEFINED
     ELSE LET i == CHOOSE h \in hits : \A g \in hits : h <= g
          IN ParseInt3(SubSeq(msg, i + 5, i + 7))

\* 2^n
RECURSIVE Pow2(_)
Pow2(n) == IF n = 0 THEN 1 ELSE 2 * Pow2(n - 1)

\* a wait that grows by one base per retry instead of doubling
BackoffDelay_Linear(attempt) == BackoffBaseMs * attempt

\* this.backoffBaseMs * Math.pow(2, attempt - 1)
BackoffDelay(attempt) == BackoffBaseMs * Pow2(attempt - 1)

\* getForexAggregates calls fetchWithRetry
PolygonRequest ==
  /\ pg.stage = "idle"
  /\ pg' = [pg EXCEPT !.stage = "inflight", !.attempt = 0]
  /\ UNCHANGED <<journalSymbol, mapped, macroObservation, macroLatest, upsert, ind,
                 ctlVars, llmVars, coerceVars, moreVars, gatewayVars, poolVars, flowVars>>

\* one fetchJson settles: the result is returned, or the catch block
\* classifies the error and throws or sleeps before the next attempt
FetchSettles(upstreams) ==
  /\ pg.stage = "inflight"
  /\ \E up \in upstreams :
       LET r == fetchJson(up)
           attempt == pg.attempt + 1
           msg == r.msg
           timeout == TestIgnoreCase(TIMEOUT_PATTERNS, msg)
           transient == TestIgnoreCase(TRANSIENT_PATTERNS, msg)
           status == MatchStatus(msg)
           retryableByStatus ==
             status = 429 \/ (status # STATUS_UNDEFINED /\ status >= 500)
           isRetryable == timeout \/ transient \/ retryableByStatus
           seen == Append(pg.log, up)
       IN IF r.ok
          THEN pg' = [pg EXCEPT !.stage = "returned", !.log = seen]
          ELSE IF ~isRetryable
          THEN pg' = [pg EXCEPT !.stage = "thrown", !.attempt = attempt,
                                !.err = [kind |-> up.kind, status |-> up.status, msg |-> msg],
                                !.code = IF status # STATUS_UNDEFINED THEN status ELSE 502,
                                !.reason = "non_retryable", !.log = seen]
          ELSE IF attempt > MaxRetries
          THEN pg' = [pg EXCEPT !.stage = "thrown", !.attempt = attempt,
                                !.err = [kind |-> up.kind, status |-> up.status, msg |-> msg],
                                !.code = IF timeout THEN 504
                                         ELSE IF status # STATUS_UNDEFINED THEN status
                                         ELSE 502,
                                !.reason = "max_retries", !.log = seen]
          ELSE pg' = [pg EXCEPT !.stage = "sleep", !.attempt = attempt,
                                !.err = [kind |-> up.kind, status |-> up.status, msg |-> msg],
                                !.delays = Append(pg.delays, BackoffDelay(attempt)),
                                !.log = seen]
  /\ UNCHANGED <<journalSymbol, mapped, macroObservation, macroLatest, upsert, ind,
                 ctlVars, llmVars, coerceVars, moreVars, gatewayVars, poolVars, flowVars>>

\* the backoff sleep ends: the loop calls fetchJson again
BackoffDone ==
  /\ pg.stage = "sleep"
  /\ pg' = [pg EXCEPT !.stage = "inflight"]
  /\ UNCHANGED <<journalSymbol, mapped, macroObservation, macroLatest, upsert, ind,
                 ctlVars, llmVars, coerceVars, moreVars, gatewayVars, poolVars, flowVars>>

InitPolygon ==
  /\ ControllerIdle
  /\ ServiceIdle({KeyWithFallback})
  /\ CoerceIdle
  /\ UtilIdle

NextPolygon ==
  \/ PolygonRequest
  \/ FetchSettles(Upstreams)
  \/ BackoffDone

SpecPolygon == InitPolygon /\ [][NextPolygon]_vars

\* one upstream outcome of each class the catch block tells apart
RetryUpstreams ==
  { Aborted, NetworkFailure, Response(200, BodyPlain, TRUE),
    Response(200, BodyPlain, FALSE), Response(404, BodyPlain, FALSE),
    Response(429, <<>>, FALSE), Response(500, BodyAborted, FALSE) }

NextPolygonFair ==
  \/ PolygonRequest
  \/ FetchSettles(RetryUpstreams)
  \/ BackoffDone

\* every fetchJson settles (the abort timer ends a request that hangs) and
\* every backoff timer fires
SpecPolygonFair ==
  /\ InitPolygon
  /\ [][NextPolygonFair]_vars
  /\ WF_vars(FetchSettles(RetryUpstreams))
  /\ WF_vars(BackoffDone)

\* C13: when fetchWithRetry gives up because the retry cap is exceeded, the
\* typed error's status is 504 if the last failure was a timeout, otherwise
\* the upstream HTTP status if one was received, otherwise 502.
C13_ExhaustedRetriesStatus ==
  (pg.stage = "thrown" /\ pg.reason = "max_retries")
  => pg.code = IF pg.err.kind = "aborted" THEN 504
               ELSE IF pg.err.kind = "response" THEN pg.err.status
               ELSE 502

\* C14: a response with a 4xx status other than 429 is never retried,
\* whatever its body contains: that attempt ends the call with a typed error
\* carrying exactly the upstream status.
C14_Other4xxNeverRetried ==
  \A i \in 1..Len(pg.log) :
    (pg.log[i].kind = "response" /\ pg.log[i].status \in 400..499
       /\ pg.log[i].status # 429)
    => /\ i = Len(pg.log)
       /\ pg.stage = "thrown"
       /\ pg.code = pg.log[i].status

\* ------------------------------------------------ the macro repository
MaxUpserts == 3

SeriesIds == {"s1", "s2"}
ObservationDates == {1, 2}
RevisionSeqs == {0, 1}
ObservationValues == {10, 20}

\* prisma.macroObservation.upsert on the key (seriesId, date, revisionSeq):
\* the row is created or its value replaced, isLatest set either way
UpsertObservationRow(rows, seriesId, date, value, revisionSeq) ==
  { o \in rows : ~(o.seriesId = seriesId /\ o.date = date
                     /\ o.revisionSeq = revisionSeq) }
    \cup { [seriesId |-> seriesId, date |-> date, revisionSeq |-> revisionSeq,
            value |-> value, isLatest |-> TRUE] }

\* prisma.macroLatest.upsert on the key seriesId
UpsertLatestRow(rows, seriesId, date, value, revisionSeq) ==
  { l \in rows : l.seriesId # seriesId }
    \cup { [seriesId |-> seriesId, date |-> date, value |-> value,
            revisionSeq |-> revisionSeq] }

\* upsertObservation up to its second await: the observation is written
upsertObservation(seriesId, date, value, revisionSeq) ==
  /\ upsert.stage = "idle"
  /\ upsert.calls < MaxUpserts
  /\ macroObservation' =
       UpsertObservationRow(macroObservation, seriesId, date, value, revisionSeq)
  /\ upsert' = [stage |-> "latest", calls |-> upsert.calls + 1,
                seriesId |-> seriesId, date |-> date, value |-> value,
                revisionSeq |-> revisionSeq]
  /\ UNCHANGED <<macroLatest, journalSymbol, mapped, pg, ind,
                 ctlVars, llmVars, coerceVars, moreVars, gatewayVars, poolVars, flowVars>>

\* the rest of upsertObservation: MacroLatest is written, the call returns
upsertObservationLatest ==
  /\ upsert.stage = "latest"
  /\ macroLatest' = UpsertLatestRow(macroLatest, upsert.seriesId, upsert.date,
                                    upsert.value, upsert.revisionSeq)
  /\ upsert' = [upsert EXCEPT !.stage = "idle"]
  /\ UNCHANGED <<macroObservation, journalSymbol, mapped, pg, ind,
                 ctlVars, llmVars, coerceVars, moreVars, gatewayVars, poolVars, flowVars>>

InitMacro ==
  /\ ControllerIdle
  /\ ServiceIdle({KeyWithFallback})
  /\ CoerceIdle
  /\ UtilIdle

NextMacro ==
  \/ \E seriesId \in SeriesIds, date \in ObservationDates,
        value \in ObservationValues, revisionSeq \in RevisionSeqs :
       upsertObservation(seriesId, date, value, revisionSeq)
  \/ upsertObservationLatest

SpecMacro == InitMacro /\ [][NextMacro]_vars

\* the stored observations of a series, of a series' date
ObservationsOf(seriesId) == { o \in macroObservation : o.seriesId = seriesId }
ObservationsAt(seriesId, date) == { o \in ObservationsOf(seriesId) : o.date = date }

\* the highest revision of the most recent date of a series
NewestObservation(seriesId) ==
  CHOOSE o \in ObservationsOf(seriesId) :
    \A q \in ObservationsOf(seriesId) :
      q.date < o.date \/ (q.date = o.date /\ q.revisionSeq <= o.revisionSeq)

\* C18: after any sequence of upsertObservation calls, for every
\* (seriesId, date) exactly one stored observation is marked latest, and the
\* MacroLatest row of each series holds the date, value and revisionSeq of
\* the highest-revision observation of that series' most recent date.
C18_OneLatestAndMirror ==
  upsert.stage = "idle"
  => /\ \A seriesId \in SeriesIds, date \in ObservationDates :
          ObservationsAt(seriesId, date) # {}
          => Cardinality({ o \in ObservationsAt(seriesId, date) : o.isLatest }) = 1
     /\ \A seriesId \in SeriesIds :
          ObservationsOf(seriesId) # {}
          => LET o == NewestObservation(seriesId)
             IN { l \in macroLatest : l.seriesId = seriesId }
                  = { [seriesId |-> seriesId, date |-> o.date, value |-> o.value,
                       revisionSeq |-> o.revisionSeq] }

\* ------------------------------------------------ the indicator utilities
\* A JavaScript number is a binary64 value: every sum, difference, product
\* and quotient is the exact result rounded to the nearest value of 53
\* significant bits, ties to the even significand.
MaxCandles == 4

\* ---- binary64 ----
\* A natural number of any size is a sequence of limbs, lowest limb first,
\* without high zero limbs.
LimbBits == 15

\* 2^n for 0 <= n <= LimbBits
Pow2Int(n) ==
  <<1, 2, 4, 8, 16, 32, 64, 128, 256, 512, 1024, 2048, 4096, 8192, 16384, 32768>>[n + 1]
Limb == Pow2Int(LimbBits)

RECURSIVE BTrim(_)
BTrim(s) ==
  IF Len(s) > 0 /\ s[Len(s)] = 0 THEN BTrim(SubSeq(s, 1, Len(s) - 1)) ELSE s

RECURSIVE BFromInt(_)
BFromInt(n) == IF n = 0 THEN <<>> ELSE <<n % Limb>> \o BFromInt(n \div Limb)

BLimb(a, i) == IF i <= Len(a) THEN a[i] ELSE 0

BAdd(a, b) ==
  LET n == Max(Len(a), Len(b))
      carry[i \in 0..n] ==
        IF i = 0 THEN 0 ELSE (BLimb(a, i) + BLimb(b, i) + carry[i - 1]) \div Limb
  IN BTrim([i \in 1..(n + 1) |->
              IF i <= n THEN (BLimb(a, i) + BLimb(b, i) + carry[i - 1]) % Limb
              ELSE carry[n]])

\* a - b for a >= b
BSub(a, b) ==
  LET n == Len(a)
      borrow[i \in 0..n] ==
        IF i = 0 THEN 0
        ELSE IF a[i] - BLimb(b, i) - borrow[i - 1] < 0 THEN 1 ELSE 0
  IN BTrim([i \in 1..n |-> (a[i] - BLimb(b, i) - borrow[i - 1] + Limb) % Limb])

\* -1, 0 or 1 as a is below, equal to or above b
BCmp(a, b) ==
  IF Len(a) # Len(b) THEN (IF Len(a) < Len(b) THEN -1 ELSE 1)
  ELSE LET differ == { i \in 1..Len(a) : a[i] # b[i] }
       IN IF differ = {} THEN 0
          ELSE LET top == CHOOSE i \in differ : \A j \in differ : j <= i
               IN IF a[top] < b[top] THEN -1 ELSE 1

\* a * k for 0 <= k < Limb
BMulSmall(a, k) ==
  LET n == Len(a)
      carry[i \in 0..n] ==
        IF i = 0 THEN 0 ELSE (a[i] * k + carry[i - 1]) \div Limb
  IN BTrim([i \in 1..n |-> (a[i] * k + carry[i - 1]) % Limb] \o BFromInt(carry[n]))

BShiftLimbs(a, n) == IF Len(a) = 0 THEN a ELSE [i \in 1..n |-> 0] \o a

BMul(a, b) ==
  LET acc[i \in 0..Len(b)] ==
        IF i = 0 THEN <<>>
        ELSE BAdd(acc[i - 1], BShiftLimbs(BMulSmall(a, b[i]), i - 1))
  IN acc[Len(b)]

\* the quotient of a by d, 0 < d <= Limb, rounded down
BDivSmall(a, d) ==
  LET n == Len(a)
      rem[i \in 1..(n + 1)] ==
        IF i = n + 1 THEN 0 ELSE (rem[i + 1] * Limb + a[i]) % d
  IN BTrim([i \in 1..n |-> (rem[i + 1] * Limb + a[i]) \div d])

\* the number of bits of a limb
BitsOf(k) ==
  IF k < 256
  THEN IF k < 16 THEN (IF k < 4 THEN (IF k < 1 THEN 0 ELSE IF k < 2 THEN 1 ELSE 2)
                       ELSE IF k < 8 THEN 3 ELSE 4)
       ELSE IF k < 64 THEN (IF k < 32 THEN 5 ELSE 6)
       ELSE IF k < 128 THEN 7 ELSE 8
  ELSE IF k < 4096 THEN (IF k < 1024 THEN (IF k < 512 THEN 9 ELSE 10)
                         ELSE IF k < 2048 THEN 11 ELSE 12)
  ELSE IF k < 16384 THEN (IF k < 8192 THEN 13 ELSE 14)
  ELSE 15
BBitLen(a) == IF Len(a) = 0 THEN 0 ELSE (Len(a) - 1) * LimbBits + BitsOf(a[Len(a)])

\* a * 2^n and a / 2^n rounded down
BShl(a, n) == BMulSmall(BShiftLimbs(a, n \div LimbBits), Pow2Int(n % LimbBits))
BShr(a, n) ==
  IF n \div LimbBits >= Len(a) THEN <<>>
  ELSE BDivSmall(SubSeq(a, n \div LimbBits + 1, Len(a)), Pow2Int(n % LimbBits))
BOne == <<1>>
BOdd(a) == Len(a) > 0 /\ a[1] % 2 = 1

\* A binary64 value is (-1)^neg * sig * 2^exp with sig of exactly
\* SignificandBits bits, or zero.
SignificandBits == 53
B64Zero == [nan |-> FALSE, neg |-> FALSE, sig |-> <<>>, exp |-> 0]

\* the binary64 value nearest to (n + f) * 2^e, ties to the even significand;
\* 0 <= f < 1, and sticky tells whether f > 0
B64Of(neg, m, e) ==
  IF BBitLen(m) > SignificandBits
  THEN [nan |-> FALSE, neg |-> neg, sig |-> BShr(m, 1), exp |-> e + 1]
  ELSE [nan |-> FALSE, neg |-> neg, sig |-> m, exp |-> e]

RoundTies(neg, q, e, half, sticky) ==
  B64Of(neg, IF half > 0 \/ (half = 0 /\ (sticky \/ BOdd(q))) THEN BAdd(q, BOne) ELSE q, e)

RoundShifted(neg, n, e, sticky, s, q) ==
  RoundTies(neg, q, e + s, BCmp(BSub(n, BShl(q, s)), BShl(BOne, s - 1)), sticky)

RoundBits(neg, n, e, sticky, bits) ==
  IF bits = 0 THEN B64Zero
  ELSE IF bits <= SignificandBits
  THEN [nan |-> FALSE, neg |-> neg, sig |-> BShl(n, SignificandBits - bits),
        exp |-> e - (SignificandBits - bits)]
  ELSE RoundShifted(neg, n, e, sticky, bits - SignificandBits,
                    BShr(n, bits - SignificandBits))

RoundB64(neg, n, e, sticky) == RoundBits(neg, n, e, sticky, BBitLen(n))

\* an integer of at most 31 bits, held exactly
B64FromInt(n) == RoundB64(n < 0, BFromInt(IF n < 0 THEN 0 - n ELSE n), 0, FALSE)

B64Neg(a) == IF Len(a.sig) = 0 THEN a ELSE [a EXCEPT !.neg = ~a.neg]

AddAligned(a, b, e, x, y) ==
  IF a.neg = b.neg THEN RoundB64(a.neg, BAdd(x, y), e, FALSE)
  ELSE IF BCmp(x, y) >= 0 THEN RoundB64(a.neg, BSub(x, y), e, FALSE)
  ELSE RoundB64(b.neg, BSub(y, x), e, FALSE)

AddAt(a, b, e) == AddAligned(a, b, e, BShl(a.sig, a.exp - e), BShl(b.sig, b.exp - e))

B64Add(a, b) ==
  IF Len(a.sig) = 0 THEN b
  ELSE IF Len(b.sig) = 0 THEN a
  ELSE AddAt(a, b, Min(a.exp, b.exp))

B64Mul(a, b) ==
  IF Len(a.sig) = 0 \/ Len(b.sig) = 0 THEN B64Zero
  ELSE RoundB64(a.neg # b.neg, BMul(a.sig, b.sig), a.exp + b.exp, FALSE)

\* long division, one quotient bit at a time: st.rem < d going in
DivStep(rem, q, d) ==
  IF BCmp(rem, d) >= 0 THEN [rem |-> BSub(rem, d), q |-> BAdd(q, BOne)]
  ELSE [rem |-> rem, q |-> q]

DivDouble(p, d) ==
  IF Len(p.q) >= 0 THEN DivStep(BMulSmall(p.rem, 2), BMulSmall(p.q, 2), d) ELSE p

RECURSIVE DivBits(_, _, _)
DivBits(st, d, n) == IF n = 0 THEN st ELSE DivDouble(DivBits(st, d, n - 1), d)

DivRound(p, d) == IF Len(p.q) >= 0 THEN DivBits(p, d, 7) ELSE p

\* the integer bit and 56 more, in 8 rounds of 7
DivChunks(n, d) ==
  LET chunk[c \in 0..8] ==
        IF c = 0
        THEN IF BCmp(n, d) >= 0 THEN [rem |-> BSub(n, d), q |-> BOne]
             ELSE [rem |-> n, q |-> <<>>]
        ELSE DivRound(chunk[c - 1], d)
  IN chunk[8]

DivResult(a, b, last) ==
  RoundB64(a.neg # b.neg, last.q, a.exp - b.exp - 56, Len(last.rem) > 0)

\* for b other than zero
B64Div(a, b) ==
  IF Len(a.sig) = 0 \/ Len(b.sig) = 0 THEN B64Zero
  ELSE DivResult(a, b, DivChunks(a.sig, b.sig))

\* ---- JavaScript numbers ----
\* NaN stands for every value that fails Number.isFinite (NaN itself and the
\* infinities a division by zero gives); the exponent is not bounded, the
\* inputs keep every result inside the range of binary64.
NaN == [nan |-> TRUE, neg |-> FALSE, sig |-> <<>>, exp |-> 0]
IsFinite(x) == ~x.nan
IsZero(x) == ~x.nan /\ Len(x.sig) = 0
IsNegative(x) == Len(x.sig) > 0 /\ x.neg

\* the literal n and the quotient n / d of two literals
Num(n) == B64FromInt(n)
Quot(n, d) == IF d = 0 THEN NaN ELSE B64Div(B64FromInt(n), B64FromInt(d))

\* + - * / on numbers: NaN in, NaN out
Plus(a, b) == IF IsFinite(a) /\ IsFinite(b) THEN B64Add(a, b) ELSE NaN
Minus(a, b) == IF IsFinite(a) /\ IsFinite(b) THEN B64Add(a, B64Neg(b)) ELSE NaN
Times(a, b) == IF IsFinite(a) /\ IsFinite(b) THEN B64Mul(a, b) ELSE NaN
Over(a, b) ==
  IF IsFinite(a) /\ IsFinite(b) /\ ~IsZero(b) THEN B64Div(a, b) ELSE NaN

LessThan(a, b) == IsFinite(a) /\ IsFinite(b) /\ IsNegative(B64Add(a, B64Neg(b)))
MathAbs(a) == IF IsFinite(a) THEN [a EXCEPT !.neg = FALSE] ELSE a
MathMax(a, b) ==
  IF ~IsFinite(a) \/ ~IsFinite(b) THEN NaN ELSE IF LessThan(a, b) THEN b ELSE a

\* n copies of NaN
NaNs(n) == [i \in 1..n |-> NaN]

\* sum -= values[i - period] once the window is full
SmaDrop(added, values, n, period) ==
  IF n - 1 >= period THEN Minus(added, values[n - period]) ELSE added

\* out.push(i >= first ? sum / period : NaN)
SmaPush(prev, sum, i, period, first) ==
  [sum |-> sum,
   out |-> Append(prev.out, IF i >= first THEN Over(sum, Num(period)) ELSE NaN)]

\* one turn of the loop, for the value at index n - 1
SmaStep(prev, values, n, period, first) ==
  IF ~IsFinite(values[n])
  THEN [sum |-> prev.sum, out |-> Append(prev.out, NaN)]
  ELSE SmaPush(prev, SmaDrop(Plus(prev.sum, values[n]), values, n, period),
               n - 1, period, first)

\* the window one entry too short: the first average comes one index early
sma_EarlyWindow(values, period) ==
  LET st[n \in 0..Len(values)] ==
        IF n = 0 THEN [sum |-> Num(0), out |-> <<>>]
        ELSE SmaStep(st[n - 1], values, n, period, period - 2)
  IN st[Len(values)].out

sma(values, period) ==
  LET st[n \in 0..Len(values)] ==
        IF n = 0 THEN [sum |-> Num(0), out |-> <<>>]
        ELSE SmaStep(st[n - 1], values, n, period, period - 1)
  IN st[Len(values)].out

\* prev == null ? v : v * k + prev * (1 - k)
EmaNext(p, v, k) ==
  IF ~p.has THEN v ELSE Plus(Times(v, k), Times(p.prev, Minus(Num(1), k)))

EmaPush(p, next) == [has |-> TRUE, prev |-> next, out |-> Append(p.out, next)]

EmaStep(p, v, k) ==
  IF ~IsFinite(v) THEN [p EXCEPT !.out = Append(p.out, p.prev)]
  ELSE EmaPush(p, EmaNext(p, v, k))

EmaFrom(seed, values, k) ==
  LET st[n \in 0..Len(values)] ==
        IF n = 0 THEN seed ELSE EmaStep(st[n - 1], values[n], k)
  IN st[Len(values)].out

\* prev starting at 0 where the code starts it at null
ema_SeedZero(values, period) ==
  EmaFrom([has |-> TRUE, prev |-> Num(0), out |-> <<>>], values, Quot(2, period + 1))

\* prev is null until the first finite value (has = FALSE)
ema(values, period) ==
  EmaFrom([has |-> FALSE, prev |-> NaN, out |-> <<>>], values, Quot(2, period + 1))

\* rs = avgLoss === 0 ? 100 : avgGain / avgLoss
RelativeStrength(avgGain, avgLoss) ==
  IF avgLoss = Num(0) THEN Num(100) ELSE Over(avgGain, avgLoss)

\* 100 - 100 / (1 + rs)
RsiOf(avgGain, avgLoss) ==
  Minus(Num(100), Over(Num(100), Plus(Num(1), RelativeStrength(avgGain, avgLoss))))

\* Math.max(0, change) and Math.max(0, -change)
Gain(change) == MathMax(Num(0), change)
Loss(change) == MathMax(Num(0), Minus(Num(0), change))

\* the sums of the first period changes
RsiWarm(w, change) ==
  [gain |-> Plus(w.gain, Gain(change)), loss |-> Plus(w.loss, Loss(change))]

RsiFirst(w, period) ==
  [gain |-> Over(w.gain, Num(period)), loss |-> Over(w.loss, Num(period))]

\* Wilder's smoothing: (avg * (period - 1) + this change's part) / period
RsiSmooth(s, change, period) ==
  [gain |-> Over(Plus(Times(s.gain, Num(period - 1)), Gain(change)), Num(period)),
   loss |-> Over(Plus(Times(s.loss, Num(period - 1)), Loss(change)), Num(period))]

RsiOfAverages(s) == RsiOf(s.gain, s.loss)

\* while (out.length < closes.length) out.unshift(NaN)
PadFront(out, L) == IF Len(out) < L THEN NaNs(L - Len(out)) \o out ELSE out

rsi(closes, period) ==
  LET L == Len(closes)
      warm[i \in 0..L] ==
        IF i = 0 THEN [gain |-> Num(0), loss |-> Num(0)]
        ELSE RsiWarm(warm[i - 1], Minus(closes[i + 1], closes[i]))
      smooth[i \in period..L] ==
        IF i = period THEN RsiFirst(warm[period], period)
        ELSE RsiSmooth(smooth[i - 1], Minus(closes[i + 1], closes[i]), period)
  IN IF L = 0 THEN <<>>
     ELSE IF L <= period THEN PadFront(NaNs(Min(period, L - 1)), L)
     ELSE PadFront(NaNs(period)
                     \o [j \in 1..(L - period) |-> RsiOfAverages(smooth[period + j - 1])],
                   L)

\* h - l for the first candle, else max(h - l, |h - prevClose|, |l - prevClose|)
TrueRange(c, p) ==
  IF ~p.has THEN Minus(c.h, c.l)
  ELSE MathMax(MathMax(Minus(c.h, c.l), MathAbs(Minus(c.h, p.prevClose))),
               MathAbs(Minus(c.l, p.prevClose)))

TrStep(p, c) ==
  IF ~IsFinite(c.h) \/ ~IsFinite(c.l) \/ ~IsFinite(c.c)
  THEN [p EXCEPT !.trs = Append(p.trs, NaN)]
  ELSE [has |-> TRUE, prevClose |-> c.c, trs |-> Append(p.trs, TrueRange(c, p))]

TrueRanges(candles) ==
  LET tr[n \in 0..Len(candles)] ==
        IF n = 0 THEN [has |-> FALSE, prevClose |-> NaN, trs |-> <<>>]
        ELSE TrStep(tr[n - 1], candles[n])
  IN tr[Len(candles)].trs

FiniteOrZero(x) == IF IsFinite(x) THEN x ELSE Num(0)

AtrPush(p, next) == [has |-> TRUE, prevAtr |-> next, out |-> Append(p.out, next)]

\* one turn of the loop at index i; seed is the mean of trs[1..period]
AtrStep(p, i, trueRange, period, seed) ==
  IF ~IsFinite(trueRange) \/ i < period THEN [p EXCEPT !.out = Append(p.out, NaN)]
  ELSE IF i = period THEN AtrPush(p, seed)
  ELSE IF ~p.has THEN [p EXCEPT !.out = Append(p.out, NaN)]
  ELSE AtrPush(p, Over(Plus(Times(p.prevAtr, Num(period - 1)), trueRange), Num(period)))

AtrOver(trs, period) ==
  LET windowSum[j \in 0..period] ==
        IF j = 0 THEN Num(0)
        ELSE Plus(windowSum[j - 1], FiniteOrZero(trs[j + 1]))
      st[n \in 0..Len(trs)] ==
        IF n = 0 THEN [has |-> FALSE, prevAtr |-> NaN, out |-> <<>>]
        ELSE AtrStep(st[n - 1], n - 1, trs[n], period,
                     Over(windowSum[period], Num(period)))
  IN st[Len(trs)].out

atr(candles, period) == AtrOver(TrueRanges(candles), period)

\* the search answering lo where the code answers Math.max(0, lo - 1)
findCandleIndexAtOrBefore_NextCandle(candles, timestampMs) ==
  LET last == Len(candles) - 1
      t(i) == candles[i + 1].t
      search[lo \in 0..Len(candles), hi \in -1..last] ==
        IF lo > hi THEN lo
        ELSE LET mid == (lo + hi) \div 2
             IN IF t(mid) = timestampMs THEN mid
                ELSE IF t(mid) < timestampMs THEN search[mid + 1, hi]
                ELSE search[lo, mid - 1]
  IN IF Len(candles) = 0 THEN -1
     ELSE IF timestampMs <= t(0) THEN 0
     ELSE IF timestampMs >= t(last) THEN last
     ELSE search[0, last]

\* indices are the code's, counted from 0
findCandleIndexAtOrBefore(candles, timestampMs) ==
  LET last == Len(candles) - 1
      t(i) == candles[i + 1].t
      search[lo \in 0..Len(candles), hi \in -1..last] ==
        IF lo > hi THEN Max(0, lo - 1)
        ELSE LET mid == (lo + hi) \div 2
             IN IF t(mid) = timestampMs THEN mid
                ELSE IF t(mid) < timestampMs THEN search[mid + 1, hi]
                ELSE search[lo, mid - 1]
  IN IF Len(candles) = 0 THEN -1
     ELSE IF timestampMs <= t(0) THEN 0
     ELSE IF timestampMs >= t(last) THEN last
     ELSE search[0, last]

\* scaled * 2^exp as a whole number, a half rounded up
RoundHalfUp(scaled, n, q) ==
  IF BCmp(BSub(scaled, BShl(q, n)), BShl(BOne, n - 1)) >= 0 THEN BAdd(q, BOne) ELSE q

Millionths(scaled, exp) ==
  IF exp >= 0 THEN BShl(scaled, exp)
  ELSE RoundHalfUp(scaled, 0 - exp, BShr(scaled, 0 - exp))

\* Number(x.toFixed(6)): the whole number of millionths nearest to x, the
\* larger magnitude of two equally near, and then the binary64 value nearest
\* to that many millionths
Million == 1000000
ToFixed6(x) ==
  IF ~IsFinite(x) THEN NaN
  ELSE IF IsZero(x) THEN x
  ELSE B64Div(RoundB64(x.neg, Millionths(BMul(x.sig, BFromInt(Million)), x.exp), 0, FALSE),
              B64FromInt(Million))

\* undefined is written NaN in the optional field close
NoSnapshot == [defined |-> FALSE, timeIndex |-> -1, time |-> 0, close |-> NaN]

\* the snapshot's timeIndex, time and close; its other fields are the values
\* of the indicator series at timeIndex
getIndicatorsAt(candles, timestamp) ==
  LET at == findCandleIndexAtOrBefore(candles, timestamp)
  IN IF Len(candles) = 0 \/ at < 0 THEN NoSnapshot
     ELSE [defined |-> TRUE, timeIndex |-> at, time |-> candles[at + 1].t,
           close |-> ToFixed6(candles[at + 1].c)]

\* candles as Polygon returns them: times strictly ascending
Candle(t, shape) == [t |-> t, h |-> shape.h, l |-> shape.l, c |-> shape.c]
TwoTo53 == Times(Num(67108864), Num(134217728))
CandleShapes ==
  { [h |-> Num(12), l |-> Num(8), c |-> Num(10)],
    [h |-> Plus(TwoTo53, TwoTo53), l |-> TwoTo53, c |-> TwoTo53],
    [h |-> Num(2), l |-> Num(1), c |-> Quot(5, 3)],
    [h |-> NaN, l |-> NaN, c |-> NaN] }
CandleTimes == { 2 * i : i \in 1..MaxCandles }
Timestamps == 1..(2 * MaxCandles + 1)

RECURSIVE CandleSeriesUpTo(_)
CandleSeriesUpTo(n) ==
  IF n = 0 THEN { <<>> }
  ELSE LET shorter == CandleSeriesUpTo(n - 1)
       IN shorter
            \cup { Append(q, Candle(t, shape)) :
                     q \in { r \in shorter : Len(r) = n - 1 },
                     t \in CandleTimes, shape \in CandleShapes }

Ascending(cs) == \A i \in 1..(Len(cs) - 1) : cs[i].t < cs[i + 1].t

InitIndicators ==
  /\ ControllerIdle
  /\ ServiceIdle({KeyWithFallback})
  /\ CoerceIdle
  /\ journalSymbol = <<>>
  /\ mapped = NoMapped
  /\ pg = PolygonIdle
  /\ macroObservation = {}
  /\ macroLatest = {}
  /\ upsert = NoUpsert
  /\ call = NoCall
  /\ GatewayIdle
  /\ FlowIdle
  /\ \E cs \in { q \in CandleSeriesUpTo(MaxCandles) : Ascending(q) } :
       ind = [IndicatorsIdle EXCEPT !.candles = cs]

\* the enrichment of a trade: the candle at or before a timestamp
IndicatorsAt ==
  /\ ind.op = "idle"
  /\ \E ts \in Timestamps :
       ind' = [ind EXCEPT !.op = "at", !.arg = ts,
                          !.out = [index |-> findCandleIndexAtOrBefore(ind.candles, ts),
                                   snapshot |-> getIndicatorsAt(ind.candles, ts)]]
  /\ UNCHANGED <<journalSymbol, mapped, pg, macroObservation, macroLatest, upsert,
                 ctlVars, llmVars, coerceVars, moreVars, gatewayVars, poolVars, flowVars>>

\* the four series over the closes and candles, for one period
IndicatorSeries ==
  /\ ind.op = "idle"
  /\ \E period \in 1..MaxCandles :
       LET closes == [i \in 1..Len(ind.candles) |-> ind.candles[i].c]
       IN ind' = [ind EXCEPT !.op = "series", !.arg = period,
                             !.out = [sma |-> sma(closes, period),
                                      ema |-> ema(closes, period),
                                      rsi |-> rsi(closes, period),
                                      atr |-> atr(ind.candles, period)]]
  /\ UNCHANGED <<journalSymbol, mapped, pg, macroObservation, macroLatest, upsert,
                 ctlVars, llmVars, coerceVars, moreVars, gatewayVars, poolVars, flowVars>>

NextIndicators ==
  \/ IndicatorsAt
  \/ IndicatorSeries

SpecIndicators == InitIndicators /\ [][NextIndicators]_vars

\* C19: for a series sorted ascending by t, findCandleIndexAtOrBefore
\* returns -1 for an empty series, 0 when ts precedes the first candle, the
\* last index when ts follows the last candle, and otherwise the index of
\* the latest candle with t <= ts; getIndicatorsAt reports this index as
\* timeIndex together with that candle's time and its close (to the
\* millionth).
C19_IndexAtOrBefore ==
  ind.op = "at"
  => LET cs == ind.candles
         ts == ind.arg
         at == ind.out.index
         snap == ind.out.snapshot
         atOrBefore == { i \in 1..Len(cs) : cs[i].t <= ts }
     IN /\ Len(cs) = 0 => at = -1 /\ ~snap.defined
        /\ (Len(cs) > 0 /\ atOrBefore = {}) => at = 0
        /\ (Len(cs) > 0 /\ atOrBefore = 1..Len(cs)) => at = Len(cs) - 1
        /\ atOrBefore # {}
             => /\ at + 1 \in atOrBefore
                /\ \A i \in atOrBefore : i <= at + 1
        /\ Len(cs) > 0
             => /\ snap.defined
                /\ snap.timeIndex = at
                /\ snap.time = cs[at + 1].t
                /\ IsFinite(snap.close) <=> IsFinite(cs[at + 1].c)
                /\ IsFinite(snap.close)
                     => LET d == MathAbs(Minus(snap.close, cs[at + 1].c))
                        IN ~LessThan(Num(1), Times(Num(2 * Million), d))

\* a timestamp strictly between the second and the third of four candles
C19_Witness ==
  /\ ind.op = "at"
  /\ Len(ind.candles) = 4
  /\ ind.candles[2].t < ind.arg
  /\ ind.arg < ind.candles[3].t
  /\ ind.out.index = 1
  /\ ind.out.snapshot.close # ind.candles[2].c

\* C20: for every input of length L and every period P with 1 <= P <= L,
\* sma, ema, rsi and atr each return exactly L entries, and every entry
\* before the warm-up index is NaN (index < P-1 for sma, index < P for rsi
\* and atr).
C20_AlignedWithWarmUp ==
  (ind.op = "series" /\ ind.arg <= Len(ind.candles))
  => LET L == Len(ind.candles)
         P == ind.arg
     IN /\ Len(ind.out.sma) = L
        /\ Len(ind.out.ema) = L
        /\ Len(ind.out.rsi) = L
        /\ Len(ind.out.atr) = L
        /\ \A i \in 0..(L - 1) :
             /\ i < P - 1 => ~IsFinite(ind.out.sma[i + 1])
             /\ i < P => ~IsFinite(ind.out.rsi[i + 1])
             /\ i < P => ~IsFinite(ind.out.atr[i + 1])

\* four candles, period 2: every series has values after its warm-up
C20_Witness ==
  /\ ind.op = "series"
  /\ ind.arg = 2
  /\ Len(ind.candles) = 4
  /\ IsFinite(ind.out.sma[2])
  /\ ~IsFinite(ind.out.sma[1])
  /\ IsFinite(ind.out.ema[4])
  /\ IsFinite(ind.out.rsi[3])
  /\ ~IsFinite(ind.out.rsi[2])
  /\ IsFinite(ind.out.atr[3])
  /\ ~IsFinite(ind.out.atr[2])

\* x and y differ by no more than CloseTo of the magnitude scale
CloseTo == Quot(1, 1000000000)
IsCloseTo(x, y, scale) ==
  /\ IsFinite(x)
  /\ IsFinite(y)
  /\ ~LessThan(Times(MathAbs(scale), CloseTo), MathAbs(Minus(x, y)))

\* the series of closes the indicator series were computed over
Closes == [i \in 1..Len(ind.candles) |-> ind.candles[i].c]

\* the mean of values[from..to] (positions counted from 1), summed afresh,
\* and the largest magnitude among them
WindowMean(values, from, to) ==
  LET total[j \in (from - 1)..to] ==
        IF j = from - 1 THEN Num(0) ELSE Plus(total[j - 1], values[j])
  IN Over(total[to], Num(to - from + 1))
WindowScale(values, from, to) ==
  LET largest[j \in (from - 1)..to] ==
        IF j = from - 1 THEN Num(0) ELSE MathMax(largest[j - 1], MathAbs(values[j]))
  IN largest[to]

\* C21: for every sequence of finite values and every period P >= 1,
\* sma(values, P)[i] is the arithmetic mean of values[i-P+1 .. i] for every
\* index i >= P-1, to within CloseTo of the largest magnitude in that window.
C21_SmaIsWindowMean ==
  (ind.op = "series" /\ \A j \in 1..Len(Closes) : IsFinite(Closes[j]))
  => LET P == ind.arg
     IN \A i \in (P - 1)..(Len(Closes) - 1) :
          IsCloseTo(ind.out.sma[i + 1],
                    WindowMean(Closes, i - P + 2, i + 1),
                    WindowScale(Closes, i - P + 2, i + 1))

\* C21 over the series whose values are all of one magnitude
C21_SmaIsWindowMeanOfAlikeValues ==
  (\A j \in 1..Len(Closes) : LessThan(MathAbs(Closes[j]), Num(1000)))
  => C21_SmaIsWindowMean

\* every close is the same finite number
ConstantCloses ==
  /\ Len(Closes) > 0
  /\ IsFinite(Closes[1])
  /\ \A j \in 1..Len(Closes) : Closes[j] = Closes[1]

MaxPoints == 14
BundleKeys == {"cpi", "gdp", "pmi"}

Point(time, value) == [time |-> time, value |-> value]
SeriesOf(points) == JObj([series |-> JArr(points)])
NoSeriesField == JObj([series |-> JUndef])

IsArray(x) == x.t = "arr"

\* the year-over-year change of the latest point; the point reading the
\* series one place too late
yoyOf_ElevenBack(s) ==
  IF s.t = "undef" \/ ~IsArray(s.f.series) \/ Len(s.f.series.e) < 13 THEN JUndef
  ELSE LET series == s.f.series.e
           latest == series[Len(series)]
           ago == series[Len(series) - 11]
           abs == Minus(latest.value, ago.value)
       IN [abs |-> abs,
           pct |-> IF ~IsZero(ago.value) THEN Times(Over(abs, ago.value), Num(100))
                   ELSE JUndef]

\* series[length - 1] and series[length - 13] of the code are the positions
\* Len and Len - 12 counted from 1
yoyOf(s) ==
  IF s.t = "undef" \/ ~IsArray(s.f.series) \/ Len(s.f.series.e) < 13 THEN JUndef
  ELSE LET series == s.f.series.e
           latest == series[Len(series)]
           ago == series[Len(series) - 12]
           abs == Minus(latest.value, ago.value)
       IN [abs |-> abs,
           pct |-> IF ~IsZero(ago.value) THEN Times(Over(abs, ago.value), Num(100))
                   ELSE JUndef]

\* an empty series counting as data
hasAnyData_EmptyCounts(data) ==
  IF data.t = "undef" THEN FALSE
  ELSE \E key \in DOMAIN data.f :
         LET series == data.f[key]
         IN series.t # "undef" /\ IsArray(series.f.series)

hasAnyData(data) ==
  IF data.t = "undef" THEN FALSE
  ELSE \E key \in DOMAIN data.f :
         LET series == data.f[key]
         IN /\ series.t # "undef"
            /\ IsArray(series.f.series)
            /\ Len(series.f.series.e) > 0

\* series of every length up to MaxPoints: the last value and the value
\* twelve places before it chosen, every other value told apart by its place
YoyValues == { Num(0), Num(100), Num(112), Quot(5, 3) }
YoySeries ==
  { SeriesOf([i \in 1..n |->
                Point(i, IF i = n THEN latest
                         ELSE IF i = n - 12 THEN ago
                         ELSE Num(1000 + i))]) :
      n \in 0..MaxPoints, latest \in YoyValues, ago \in YoyValues }
    \cup { JUndef, NoSeriesField }

\* bundles over every subset of the keys
BundleSeries ==
  { JUndef, NoSeriesField, SeriesOf(<<>>), SeriesOf(<<Point(1, Num(100))>>),
    SeriesOf(<<Point(1, Num(100)), Point(2, Num(112))>>) }
Bundles ==
  { JObj(f) : f \in UNION { [keys -> BundleSeries] : keys \in SUBSET BundleKeys } }
    \cup { JUndef }

InitMacroUtils ==
  /\ GatewayIdle
  /\ FlowIdle
  /\ ControllerIdle
  /\ ServiceIdle({KeyWithFallback})
  /\ CoerceIdle
  /\ journalSymbol = <<>>
  /\ mapped = NoMapped
  /\ pg = PolygonIdle
  /\ macroObservation = {}
  /\ macroLatest = {}
  /\ upsert = NoUpsert
  /\ ind = IndicatorsIdle
  /\ \/ \E s \in YoySeries : call = [op |-> "series", args |-> s, out |-> <<>>]
     \/ \E data \in Bundles : call = [op |-> "bundle", args |-> data, out |-> <<>>]

YoyOf ==
  /\ call.op = "series"
  /\ call' = [call EXCEPT !.op = "yoyOf", !.out = yoyOf(call.args)]
  /\ UNCHANGED <<ctlVars, llmVars, coerceVars, utilVars, gatewayVars, poolVars, flowVars>>

HasAnyData ==
  /\ call.op = "bundle"
  /\ call' = [call EXCEPT !.op = "hasAnyData", !.out = hasAnyData(call.args)]
  /\ UNCHANGED <<ctlVars, llmVars, coerceVars, utilVars, gatewayVars, poolVars, flowVars>>

NextMacroUtils ==
  \/ YoyOf
  \/ HasAnyData

SpecMacroUtils == InitMacroUtils /\ [][NextMacroUtils]_vars

\* the points of a series argument, none when it has no array of them
PointsOf(s) ==
  IF s.t = "undef" \/ ~IsArray(s.f.series) THEN <<>> ELSE s.f.series.e

\* C23: yoyOf(s) returns undefined for every series with fewer than 13
\* points; for a series with 13 or more points it returns abs = last value
\* minus the value 12 positions before the last, and pct = abs / that older
\* value * 100 (pct undefined when the older value is 0).
C23_YoyOf ==
  call.op = "yoyOf"
  => LET points == PointsOf(call.args)
         n == Len(points)
     IN IF n < 13 THEN call.out = JUndef
        ELSE LET last == points[n].value
                 older == points[n - 12].value
             IN /\ call.out.abs = Minus(last, older)
                /\ IsZero(older) => call.out.pct = JUndef
                /\ ~IsZero(older)
                     => call.out.pct = Times(Over(Minus(last, older), older), Num(100))

\* fourteen points, from 100 to 112 over twelve places: 12 and 12 per cent
C23_Witness ==
  /\ call.op = "yoyOf"
  /\ Len(PointsOf(call.args)) = 14
  /\ PointsOf(call.args)[2].value = Num(100)
  /\ PointsOf(call.args)[14].value = Num(112)
  /\ call.out.abs = Num(12)
  /\ call.out.pct = Num(12)

\* C24: hasAnyData(bundle) is true if and only if at least one series in the
\* bundle has at least one observation; it is false for undefined, for the
\* empty bundle and for a bundle whose series are all absent or empty.
C24_HasAnyData ==
  call.op = "hasAnyData"
  => LET data == call.args
         withData == IF data.t = "undef" THEN {}
                     ELSE { key \in DOMAIN data.f : Len(PointsOf(data.f[key])) >= 1 }
     IN /\ call.out <=> withData # {}
        /\ data.t = "undef" => ~call.out
        /\ (data.t # "undef" /\ DOMAIN data.f = {}) => ~call.out

\* one series empty, one absent, one of two observations: there is data
C24_Witness ==
  /\ call.op = "hasAnyData"
  /\ call.args.t # "undef"
  /\ DOMAIN call.args.f = BundleKeys
  /\ call.args.f["cpi"] = SeriesOf(<<>>)
  /\ call.args.f["gdp"] = JUndef
  /\ Len(PointsOf(call.args.f["pmi"])) = 2
  /\ call.out

\* ------------------------------------------------ the news relevance score
\* NewsService.getNewsDigest scores every merged candidate: 3 for the symbol
\* in title or description, 1 for each keyword found there up to 5, and up
\* to 2 for how late in the window it was published.
MathMin(a, b) ==
  IF ~IsFinite(a) \/ ~IsFinite(b) THEN NaN ELSE IF LessThan(b, a) THEN b ELSE a

\* a?.publishedAt missing
NoTime == -1

\* the keywords of the pool found in the text, counted as the loop counts
\* them: empty keywords skipped, no more than five
HitsOf(text, kwLower) ==
  Min(5, Cardinality({ k \in 1..Len(kwLower) :
                         Len(kwLower[k]) > 0 /\ Contains(text, kwLower[k]) }))

\* the score without the 3 for the symbol
scoreOf_NoSymbolBonus(a, sym, baseKeywords, fromMs, toMs, now) ==
  LET symLower == ToLowerCase(sym)
      kwLower == [k \in 1..Len(baseKeywords) |-> ToLowerCase(baseKeywords[k])]
      spanMs == Max(1, toMs - fromMs)
      text == ToLowerCase(a.title \o <<" ">> \o a.description)
      hits == HitsOf(text, kwLower)
      t == IF a.publishedAt = NoTime THEN now ELSE a.publishedAt
      recency == MathMin(Num(1), MathMax(Num(0), Over(Num(t - fromMs), Num(spanMs))))
  IN Plus(Num(hits), Times(recency, Num(2)))

scoreOf(a, sym, baseKeywords, fromMs, toMs, now) ==
  LET symLower == ToLowerCase(sym)
      kwLower == [k \in 1..Len(baseKeywords) |-> ToLowerCase(baseKeywords[k])]
      spanMs == Max(1, toMs - fromMs)
      text == ToLowerCase(a.title \o <<" ">> \o a.description)
      hits == HitsOf(text, kwLower)
      t == IF a.publishedAt = NoTime THEN now ELSE a.publishedAt
      recency == MathMin(Num(1), MathMax(Num(0), Over(Num(t - fromMs), Num(spanMs))))
  IN Plus(Num((IF Contains(text, symLower) THEN 3 ELSE 0) + hits),
          Times(recency, Num(2)))

\* Two candidates alike in everything but the title: one title is the other
\* with a mention of the symbol put in at some place.
NewsSymbol == <<"S", "Y">>
Mentions == { <<"S", "Y">>, <<"s", "y">> }
PlainTitles == { <<>>, <<"a">>, <<"a", "b">>, <<"b", "a">> }
Descriptions == { <<>>, <<"a">> }
PublishTimes == { NoTime, 1, 3, 9 }
\* the window asked for and the clock, in milliseconds
Window == [fromMs |-> 2, toMs |-> 6, now |-> 7]
KeywordCandidates ==
  << <<"a", "b">>, <<"a", "b", " ">>, <<"a", "b", " ", "a">>, <<"b">>, <<"s", "y">> >>
KeywordPools ==
  { SelectSeq(KeywordCandidates, LAMBDA kw : kw \in chosen) :
      chosen \in SUBSET { KeywordCandidates[k] : k \in 1..Len(KeywordCandidates) } }

Article(title, description, publishedAt) ==
  [title |-> title, description |-> description, publishedAt |-> publishedAt]

InitNews ==
  /\ GatewayIdle
  /\ FlowIdle
  /\ ControllerIdle
  /\ ServiceIdle({KeyWithFallback})
  /\ CoerceIdle
  /\ journalSymbol = <<>>
  /\ mapped = NoMapped
  /\ pg = PolygonIdle
  /\ macroObservation = {}
  /\ macroLatest = {}
  /\ upsert = NoUpsert
  /\ ind = IndicatorsIdle
  /\ \E plain \in PlainTitles, mention \in Mentions, descr \in Descriptions,
        t \in PublishTimes, pool \in KeywordPools :
       \E at \in 0..Len(plain) :
         call = [op |-> "candidates",
                 args |-> [sym |-> NewsSymbol, baseKeywords |-> pool,
                           with |-> Article(SubSeq(plain, 1, at) \o mention
                                              \o SubSeq(plain, at + 1, Len(plain)),
                                            descr, t),
                           without |-> Article(plain, descr, t)],
                 out |-> <<>>]

\* the scoring of the two candidates within one digest
ScoreCandidates ==
  /\ call.op = "candidates"
  /\ call' = [call EXCEPT
                !.op = "scored",
                !.out = [with |-> scoreOf(call.args.with, call.args.sym,
                                          call.args.baseKeywords,
                                          Window.fromMs, Window.toMs, Window.now),
                         without |-> scoreOf(call.args.without, call.args.sym,
                                             call.args.baseKeywords,
                                             Window.fromMs, Window.toMs, Window.now)]]
  /\ UNCHANGED <<ctlVars, llmVars, coerceVars, utilVars, gatewayVars, poolVars, flowVars>>

NextNews == ScoreCandidates

SpecNews == InitNews /\ [][NextNews]_vars

\* the text the score is computed over, and the keywords found in it
ScoredText(a) == ToLowerCase(a.title \o <<" ">> \o a.description)
KeywordsFound(a) ==
  HitsOf(ScoredText(a),
         [k \in 1..Len(call.args.baseKeywords) |->
            ToLowerCase(call.args.baseKeywords[k])])

\* one title holds the symbol in any case; the other title and the
\* description do not
OnlyOneMentionsSymbol ==
  /\ Contains(ToLowerCase(call.args.with.title), ToLowerCase(call.args.sym))
  /\ ~Contains(ToLowerCase(call.args.without.title), ToLowerCase(call.args.sym))
  /\ ~Contains(ToLowerCase(call.args.without.description), ToLowerCase(call.args.sym))

MaxTextLen == 6
MaxBudget == 5

Ellipsis == <<".", ".", ".">>

\* String.prototype.slice(0, end): a negative end counts from the end of
\* the string, and the result is empty when the end falls before the start
StringSlice0(text, end) ==
  LET len == Len(text)
      to == IF end < 0 THEN (IF len + end < 0 THEN 0 ELSE len + end)
            ELSE (IF end > len THEN len ELSE end)
  IN SubSeq(text, 1, to)

truncateContext(text, maxChars) ==
  IF Len(text) = 0 THEN text
  ELSE IF Len(text) <= maxChars THEN text
  ELSE StringSlice0(text, maxChars - 3) \o Ellipsis

EndsWith(s, p) == Len(s) >= Len(p) /\ SubSeq(s, Len(s) - Len(p) + 1, Len(s)) = p

RECURSIVE TextsOfLen(_)
TextsOfLen(n) ==
  IF n = 0 THEN {<<>>}
  ELSE {Append(t, c) : t \in TextsOfLen(n - 1), c \in {"a", "."}}

ContextTexts == UNION {TextsOfLen(n) : n \in 0..MaxTextLen}

\* no request, service call or indicator computation in progress
RequestIdle ==
  /\ FlowIdle
  /\ ControllerIdle
  /\ ServiceIdle({KeyWithFallback})
  /\ CoerceIdle
  /\ journalSymbol = <<>>
  /\ mapped = NoMapped
  /\ pg = PolygonIdle
  /\ macroObservation = {}
  /\ macroLatest = {}
  /\ upsert = NoUpsert
  /\ ind = IndicatorsIdle

\* the budget is whatever number PERSONAL_WEIGHTS gives for maxContextChars
InitTruncate ==
  /\ GatewayIdle
  /\ RequestIdle
  /\ \E text \in ContextTexts, maxChars \in 0..MaxBudget :
       call = [op |-> "content", args |-> [text |-> text, maxChars |-> maxChars],
               out |-> <<>>]

TruncateContext ==
  /\ call.op = "content"
  /\ call' = [call EXCEPT !.op = "truncated",
                          !.out = truncateContext(call.args.text, call.args.maxChars)]
  /\ UNCHANGED <<ctlVars, llmVars, coerceVars, utilVars, gatewayVars, poolVars, flowVars>>

NextTruncate == TruncateContext

SpecTruncate == InitTruncate /\ [][NextTruncate]_vars

\* C26 as stated: for every text and every budget maxChars >= 0 the result
\* of truncateContext is never longer than maxChars, and when the text is
\* longer than the budget the result ends with the ellipsis "...".
C26_NeverLongerThanBudget ==
  call.op = "truncated"
  => /\ Len(call.out) <= call.args.maxChars
     /\ Len(call.args.text) > call.args.maxChars => EndsWith(call.out, Ellipsis)

\* with a budget that has room for the ellipsis the result fits the budget
TruncatedFitsBudgetOfThree ==
  (call.op = "truncated" /\ call.args.maxChars >= 3)
  => /\ Len(call.out) <= call.args.maxChars
     /\ Len(call.args.text) > call.args.maxChars => EndsWith(call.out, Ellipsis)

\* ------------------------------------------------- retry budget and backoff
\* the requests issued so far for the URL: those settled and the one in flight
RequestsIssued == Len(pg.log) + (IF pg.stage = "inflight" THEN 1 ELSE 0)

\* C29: for one URL fetchWithRetry issues at most maxRetries + 1 requests and
\* always ends, returning the first successful response or throwing an
\* error that carries a status; the wait before the first retry is
\* backoffBaseMs and each later wait is twice the one before it.
C29_BoundedRetriesWithBackoff ==
  /\ [](/\ RequestsIssued <= MaxRetries + 1
        /\ Len(pg.delays) <= MaxRetries
        /\ \A k \in 1..Len(pg.delays) :
             pg.delays[k] = (IF k = 1 THEN BackoffBaseMs ELSE 2 * pg.delays[k - 1])
        /\ pg.stage = "sleep" => Len(pg.delays) = Len(pg.log)
        /\ pg.stage = "returned" =>
             /\ fetchJson(pg.log[Len(pg.log)]).ok
             /\ \A k \in 1..(Len(pg.log) - 1) : ~fetchJson(pg.log[k]).ok
        /\ pg.stage = "thrown" =>
             /\ pg.code \in 100..599
             /\ \A k \in 1..Len(pg.log) : ~fetchJson(pg.log[k]).ok)
  /\ (pg.stage = "inflight") ~> (pg.stage \in {"returned", "thrown"})

\* every retry was used: four requests, waits of 300, 600 and 1200 ms, and
\* the error thrown
C29_Witness ==
  /\ pg.stage = "thrown"
  /\ Len(pg.log) = MaxRetries + 1
  /\ pg.delays = <<300, 600, 1200>>

\* ------------------------------------------------------ market-data gateway
\* ---- the query of one getForexAggregates call
Timespans == {"minute", "hour", "day"}
TimespanText(timespan) ==
  CASE timespan = "minute" -> <<"m","i","n","u","t","e">>
    [] timespan = "hour" -> <<"h","o","u","r">>
    [] OTHER -> <<"d","a","y">>

MsPerHour == 60 * 60 * 1000

\* A date as the caller wrote it: its text, and the instant new Date(text)
\* denotes, in hours since 1970-01-01T00:00:00Z.
DateInput(text, h) == [text |-> text, h |-> h]

\* toUtcDate(dateLike).getTime()
epochMs(dateLike) == dateLike.h * MsPerHour

\* String(n) for an integer n >= 0
RECURSIVE NumberToString(_)
NumberToString(n) ==
  IF n < 10 THEN <<Digits[n + 1]>>
  ELSE NumberToString(n \div 10) \o <<Digits[(n % 10) + 1]>>

\* String(k).padStart(2, '0')
PadStart2(n) == IF n < 10 THEN <<"0">> \o NumberToString(n) ELSE NumberToString(n)

\* year-month-day of the UTC day of the instant (January 1970 is enough for
\* the dates in use)
formatYyyyMmDdUTC(dateLike) ==
  LET day == dateLike.h \div 24
  IN NumberToString(1970) \o <<"-">> \o PadStart2(1) \o <<"-">> \o PadStart2(day + 1)

\* encodeURIComponent: letters, digits and - _ . ! ~ * ' ( ) are kept, every
\* other character is written as its percent code
PercentCode(c) ==
  CASE c = ":" -> <<"%","3","A">>
    [] c = "/" -> <<"%","2","F">>
    [] c = "?" -> <<"%","3","F">>
    [] c = "&" -> <<"%","2","6">>
    [] c = "=" -> <<"%","3","D">>
    [] c = "#" -> <<"%","2","3">>
    [] c = "+" -> <<"%","2","B">>
    [] c = " " -> <<"%","2","0">>
    [] OTHER -> <<c>>

RECURSIVE encodeURIComponent(_)
encodeURIComponent(s) ==
  IF Len(s) = 0 THEN <<>>
  ELSE PercentCode(s[1]) \o encodeURIComponent(Tail(s))

\* a value within URLSearchParams.toString(): as above, but a space is a +
\* and * is kept
RECURSIVE FormUrlEncode(_)
FormUrlEncode(s) ==
  IF Len(s) = 0 THEN <<>>
  ELSE (IF s[1] = " " THEN <<"+">> ELSE PercentCode(s[1])) \o FormUrlEncode(Tail(s))

\* a > b for two strings of lower-case letters
RECURSIVE StringGreater(_, _)
StringGreater(a, b) ==
  IF Len(a) = 0 THEN FALSE
  ELSE IF Len(b) = 0 THEN TRUE
  ELSE IF a[1] = b[1] THEN StringGreater(Tail(a), Tail(b))
  ELSE (CHOOSE i \in 1..Len(LowerCase) : LowerCase[i] = a[1])
         > (CHOOSE i \in 1..Len(LowerCase) : LowerCase[i] = b[1])

\* entries.sort(([a], [b]) => (a > b ? 1 : -1)) over entries of distinct names
RECURSIVE SortEntries(_)
SortEntries(entries) ==
  IF Len(entries) <= 1 THEN entries
  ELSE LET least == CHOOSE i \in 1..Len(entries) :
                      \A j \in 1..Len(entries) :
                        j # i => StringGreater(entries[j][1], entries[i][1])
           rest == [k \in 1..(Len(entries) - 1) |->
                      IF k < least THEN entries[k] ELSE entries[k + 1]]
       IN <<entries[least]>> \o SortEntries(rest)

RECURSIVE JoinEntries(_)
JoinEntries(entries) ==
  IF Len(entries) = 0 THEN <<>>
  ELSE entries[1][1] \o <<"=">> \o entries[1][2]
       \o (IF Len(entries) = 1 THEN <<>> ELSE <<"&">> \o JoinEntries(Tail(entries)))

cacheKey(prefix, params) == prefix \o <<":">> \o JoinEntries(SortEntries(params))

\* the params object of getForexAggregates, in the order it is written
AggregateParams(polyTicker, fromIso, toIso, timespan) ==
  << <<<<"t","i","c","k","e","r">>, polyTicker>>,
     <<<<"f","r","o","m">>, fromIso.text>>,
     <<<<"t","o">>, toIso.text>>,
     <<<<"m","u","l","t","i","p","l","i","e","r">>, NumberToString(1)>>,
     <<<<"t","i","m","e","s","p","a","n">>, TimespanText(timespan)>>,
     <<<<"a","d","j","u","s","t","e","d">>, <<"t","r","u","e">>>>,
     <<<<"s","o","r","t">>, <<"a","s","c">>>> >>

\* fromParam and toParam
RangeParam(dateLike, timespan) ==
  IF timespan = "day" THEN formatYyyyMmDdUTC(dateLike)
  ELSE NumberToString(epochMs(dateLike))

\* the URL of the first page
AggregatesUrl(polyTicker, fromIso, toIso, timespan, apiKey) ==
  <<"h","t","t","p","s",":","/","/","a","p","i",".","p","o","l",
      "y","g","o","n",".","i","o","/","v","2","/","a","g","g","s","/","t","i","c","k","e","r">>
  \o <<"/">> \o encodeURIComponent(polyTicker)
  \o <<"/","r","a","n","g","e","/">> \o NumberToString(1)
  \o <<"/">> \o TimespanText(timespan)
  \o <<"/">> \o encodeURIComponent(RangeParam(fromIso, timespan))
  \o <<"/">> \o encodeURIComponent(RangeParam(toIso, timespan))
  \o <<"?">> \o <<"a","d","j","u","s","t","e","d","=","t","r",
      "u","e","&","s","o","r","t","=","a","s","c","&","l","i",
      "m","i","t","=","5","0","0","0","0","&","a","p","i","K","e","y","=">> \o FormUrlEncode(apiKey)

\* the continuation URL: the provider's link, with the API key appended
\* when /[?&]apiKey=/ does not find one
nextPageUrl_AsGiven(next, apiKey) == next

nextPageUrl(next, apiKey) ==
  LET hasApiKey == Contains(next, <<"?","a","p","i","K","e","y",
      "=">>) \/ Contains(next, <<"&","a","p","i","K","e","y","=">>)
  IN IF hasApiKey THEN next
     ELSE next \o (IF Includes(next, "?") THEN <<"&">> ELSE <<"?">>)
               \o <<"a","p","i","K","e","y","=">> \o apiKey

\* ---- the two cache tiers
\* config.api.polygon.defaults.ttlByTimespan*Ms as they default
TtlByTimespan ==
  [minute |-> 60 * 60 * 1000, hour |-> 6 * 60 * 60 * 1000, day |-> 24 * 60 * 60 * 1000]

\* A Map is the set of its [key, value] pairs, one pair per key.
\* this.cache.get(key), undefined as NoEntry
NoEntry == [data |-> <<>>, expires |-> -1]
MapHas(map, key) == \E e \in map : e.key = key
MapGet(map, key) ==
  IF MapHas(map, key) THEN (CHOOSE e \in map : e.key = key).value ELSE NoEntry
MapDelete(map, key) == {e \in map : e.key # key}
MapSet(map, key, value) == MapDelete(map, key) \cup {[key |-> key, value |-> value]}

\* an entry that is dropped on the deadline itself
getFromCache_ExpiresAtDeadline(map, key, t) ==
  LET hit == MapGet(map, key)
  IN IF ~MapHas(map, key) THEN [found |-> FALSE, entry |-> NoEntry, cache |-> map]
     ELSE IF t >= hit.expires
     THEN [found |-> FALSE, entry |-> NoEntry, cache |-> MapDelete(map, key)]
     ELSE [found |-> TRUE, entry |-> hit, cache |-> map]

\* getFromCache at time t: what it returns and the map it leaves behind
getFromCache(map, key, t) ==
  LET hit == MapGet(map, key)
  IN IF ~MapHas(map, key) THEN [found |-> FALSE, entry |-> NoEntry, cache |-> map]
     ELSE IF t > hit.expires
     THEN [found |-> FALSE, entry |-> NoEntry, cache |-> MapDelete(map, key)]
     ELSE [found |-> TRUE, entry |-> hit, cache |-> map]

\* an entry that grows by what each call brings
setCache_AddsToEntry(map, key, data, ttlMs, t) ==
  MapSet(map, key, [data |-> MapGet(map, key).data \o data, expires |-> t + ttlMs])

\* setCache at time t
setCache(map, key, data, ttlMs, t) ==
  MapSet(map, key, [data |-> data, expires |-> t + ttlMs])

\* JSON.stringify(candles): a property whose value is undefined is left out
StringifyCandles(candles) ==
  [json |-> [i \in 1..Len(candles) |->
               [f \in {g \in DOMAIN candles[i] : g # "v" \/ candles[i].v.t # "undef"} |->
                  candles[i][f]]]]

\* JSON.parse of such a text
ParseCandles(raw) == raw.json

\* candle.v
VolumeOf(candle) == IF "v" \in DOMAIN candle THEN candle.v ELSE JUndef

\* the Redis store: SET key raw PX ttlMs at time t, and GET at time t
RedisSet(store, key, raw, ttlMs, t) ==
  {e \in store : e.key # key} \cup {[key |-> key, raw |-> raw, until |-> t + ttlMs]}
RedisHas(store, key, t) == \E e \in store : e.key = key /\ t < e.until
RedisGet(store, key, t) == (CHOOSE e \in store : e.key = key /\ t < e.until).raw

\* ---- the provider
MAX_PAGES == 50

\* a listing that never ends
Endless == MAX_PAGES + 1

\* the candle of page p as the provider serves it to one call: what it
\* quotes differs from call to call, and only even pages carry a volume
CandleOf(p, quote) ==
  [t |-> p, o |-> quote, h |-> quote, l |-> quote, c |-> quote,
   v |-> IF p % 2 = 0 THEN [t |-> "num", n |-> quote] ELSE JUndef]

\* next_url naming page p, in the forms a link can take
LinkForms == {"query", "path", "keyed", "keyFirst"}
ProviderLink(form, p, apiKey) ==
  CASE form = "query" ->
         <<"h","t","t","p","s",":","/","/","a","p","i",".","p",
      "o","l","y","g","o","n",".","i","o","/","v","2","/","a",
      "g","g","s","/","n","e","x","t","?","c","u","r","s","o","r","=","p">> \o NumberToString(p)
    [] form = "path" ->
         <<"h","t","t","p","s",":","/","/","a","p","i",".","p",
      "o","l","y","g","o","n",".","i","o","/","v","2","/","a",
      "g","g","s","/","n","e","x","t","/","p">> \o NumberToString(p)
    [] form = "keyed" ->
         <<"h","t","t","p","s",":","/","/","a","p","i",".","p",
      "o","l","y","g","o","n",".","i","o","/","v","2","/","a",
      "g","g","s","/","n","e","x","t","?","c","u","r","s","o","r","=","p">> \o NumberToString(p)
         \o <<"&","a","p","i","K","e","y","=">> \o apiKey
    [] OTHER ->
         <<"h","t","t","p","s",":","/","/","a","p","i",".","p",
      "o","l","y","g","o","n",".","i","o","/","v","2","/","a",
      "g","g","s","/","n","e","x","t","?","a","p","i","K","e","y","=">> \o apiKey
         \o <<"&","c","u","r","s","o","r","=","p">> \o NumberToString(p)

\* ---- getForexAggregates
CallIds == 1..MaxCalls

PolyTickerOf(q) == mapToPolygonForexTicker(q.journalSymbol, ForexPrefix)

\* the first fetchWithRetry of the pagination loop
FirstRequest(rec) ==
  LET url == AggregatesUrl(PolyTickerOf(rec.args), rec.args.fromIso, rec.args.toIso,
                           rec.args.timespan, world.apiKey)
  IN [rec EXCEPT !.pc = "page", !.pageUrl = url, !.pages = 0, !.requests = <<url>>]

\* getFromCache(key) and what follows it: the cached candles are returned, or
\* the first page is requested
LocalLookup(c, rec) ==
  LET got == getFromCache(cache, rec.key, clock)
      looked == [rec EXCEPT !.lookedAt = clock]
  IN /\ cache' = got.cache
     /\ agg' = [agg EXCEPT ![c] =
                  IF got.found
                  THEN [looked EXCEPT !.pc = "returned", !.hit = "memory",
                                      !.expires = got.entry.expires,
                                      !.result = got.entry.data]
                  ELSE FirstRequest(looked)]

\* this.setCache(key, candles, ttl) and the return
LocalWrite(c, rec) ==
  /\ cache' = setCache(cache, rec.key, rec.candles, TtlByTimespan[rec.args.timespan], clock)
  /\ agg' = [agg EXCEPT ![c] = [rec EXCEPT !.pc = "returned", !.wroteAt = clock,
                                           !.result = rec.candles]]

\* a call arrives: the key is built and the shared tier is asked first, when
\* there is one
GetForexAggregates(c) ==
  /\ c \in world.slots
  /\ agg[c].pc = "idle"
  /\ \E q \in world.queries :
       LET key == cacheKey(<<"a","g","g","s">>,
                           AggregateParams(PolyTickerOf(q), q.fromIso, q.toIso, q.timespan))
           rec == [agg[c] EXCEPT !.args = q, !.key = key,
                                 !.after = {d \in CallIds : agg[d].wroteAt >= 0}]
       IN IF world.redis
          THEN /\ agg' = [agg EXCEPT ![c] = [rec EXCEPT !.pc = "redisGet"]]
               /\ UNCHANGED cache
          ELSE LocalLookup(c, rec)
  /\ UNCHANGED <<redis, clock, world, ctlVars, llmVars, coerceVars, utilVars, moreVars,
                 poolVars, flowVars>>

\* redis.get settles: a text found is parsed and returned; on nothing found
\* or on an error the local tier is asked
RedisGetSettles(c) ==
  /\ agg[c].pc = "redisGet"
  /\ \E replied \in BOOLEAN :
       IF replied /\ RedisHas(redis, agg[c].key, clock)
       THEN /\ agg' = [agg EXCEPT ![c].pc = "returned", ![c].hit = "redis",
                                  ![c].lookedAt = clock,
                                  ![c].result =
                                    ParseCandles(RedisGet(redis, agg[c].key, clock))]
            /\ UNCHANGED cache
       ELSE LocalLookup(c, agg[c])
  /\ UNCHANGED <<redis, clock, world, ctlVars, llmVars, coerceVars, utilVars, moreVars,
                 poolVars, flowVars>>

\* fetchWithRetry settles for the page requested: it throws, or the page's
\* candles are appended and either the continuation is requested or the
\* list is handed to setCacheAsync
PageSettles(c) ==
  /\ agg[c].pc = "page"
  /\ \E ok \in BOOLEAN :
       IF ~ok
       THEN /\ agg' = [agg EXCEPT ![c].pc = "thrown"]
            /\ UNCHANGED cache
       ELSE LET p == Len(agg[c].requests)
                candles == agg[c].candles \o <<CandleOf(p, c)>>
                next == IF p < world.lastPage
                        THEN ProviderLink(world.link, p + 1, world.apiKey)
                        ELSE <<>>
                pageUrl == IF Len(next) > 0 THEN nextPageUrl(next, world.apiKey) ELSE <<>>
                pages == IF Len(next) > 0 THEN agg[c].pages + 1 ELSE agg[c].pages
                rec == [agg[c] EXCEPT !.candles = candles, !.pageUrl = pageUrl,
                                      !.pages = pages, !.links = Append(@, next)]
            IN IF Len(pageUrl) > 0 /\ pages < MAX_PAGES
               THEN /\ agg' = [agg EXCEPT ![c] = [rec EXCEPT !.requests = Append(@, pageUrl)]]
                    /\ UNCHANGED cache
               ELSE IF world.redis
               THEN /\ agg' = [agg EXCEPT ![c] = [rec EXCEPT !.pc = "redisSet"]]
                    /\ UNCHANGED cache
               ELSE LocalWrite(c, rec)
  /\ UNCHANGED <<redis, clock, world, ctlVars, llmVars, coerceVars, utilVars, moreVars,
                 poolVars, flowVars>>

\* redis.set settles, stored or failed; the local tier is written either way
RedisSetSettles(c) ==
  /\ agg[c].pc = "redisSet"
  /\ \E stored \in BOOLEAN :
       redis' = IF stored
                THEN RedisSet(redis, agg[c].key, StringifyCandles(agg[c].candles),
                              TtlByTimespan[agg[c].args.timespan], clock)
                ELSE redis
  /\ LocalWrite(c, agg[c])
  /\ UNCHANGED <<clock, world, ctlVars, llmVars, coerceVars, utilVars, moreVars,
                 poolVars, flowVars>>

\* time passes
Tick ==
  /\ \E t \in world.instants : t > clock /\ clock' = t
  /\ UNCHANGED <<agg, cache, redis, world, ctlVars, llmVars, coerceVars, utilVars, moreVars,
                 poolVars, flowVars>>

NextAggregates ==
  \/ \E c \in CallIds : GetForexAggregates(c)
  \/ \E c \in CallIds : RedisGetSettles(c)
  \/ \E c \in CallIds : PageSettles(c)
  \/ \E c \in CallIds : RedisSetSettles(c)
  \/ Tick

\* ---- the calls and the surroundings explored
ApiKey == <<"p","k","1">>

AggSymbols == {<<"E","U","R","U","S","D">>, <<"e","u","r","/","u","s","d">>}
DateRanges ==
  { [fromIso |-> DateInput(<<"1","9","7","0","-","0","1","-","0",
      "1">>, 0), toIso |-> DateInput(<<"1","9","7","0","-","0","1","-","0","2">>, 24)],
    [fromIso |-> DateInput(<<"1","9","7","0","-","0","1","-","0",
      "1","T","0","0",":","0","0",":","0","0","Z">>, 0),
     toIso |-> DateInput(<<"1","9","7","0","-","0","1","-","0","2">>, 24)],
    [fromIso |-> DateInput(<<"1","9","7","0","-","0","1","-","0",
      "1","T","1","2",":","0","0",":","0","0","Z">>, 12),
     toIso |-> DateInput(<<"1","9","7","0","-","0","1","-","0","2">>, 24)] }
Queries ==
  { [journalSymbol |-> s, fromIso |-> r.fromIso, toIso |-> r.toIso, timespan |-> ts] :
      s \in AggSymbols, r \in DateRanges, ts \in Timespans }

\* the queries of two calls that may overlap: one written in two ways that
\* name the same ticker, ranges written in ways that name the same instants
\* or the same days, and two granularities
OverlapQueries ==
  { q \in Queries :
      /\ q.timespan # "hour"
      /\ q.journalSymbol = <<"e","u","r","/","u","s","d">>
           => (q.timespan = "day" /\ q.fromIso.text = <<"1","9","7","0","-","0","1","-","0","1">>)
      /\ q.timespan = "minute"
           => q.fromIso.text # 
                <<"1","9","7","0","-","0","1","-","0","1","T","0","0",":","0","0",":","0","0","Z">> }

\* the instants at which an entry written at 0 is on and just past its deadline
Deadlines ==
  UNION {{TtlByTimespan[ts], TtlByTimespan[ts] + 1} : ts \in {"minute", "day"}}

\* two calls that may overlap, a provider with two pages
InitAggregates ==
  /\ RequestIdle
  /\ call = NoCall
  /\ agg = [c \in CallIds |-> NoAggregates]
  /\ cache = {}
  /\ redis = {}
  /\ clock = 0
  /\ \E r \in BOOLEAN :
       world = [redis |-> r, apiKey |-> ApiKey, lastPage |-> 2, link |-> "query",
                slots |-> CallIds, queries |-> OverlapQueries, instants |-> Deadlines]

SpecAggregates == InitAggregates /\ [][NextAggregates]_vars

\* one call, a provider whose listing has one page, three, or no end
InitPagination ==
  /\ RequestIdle
  /\ call = NoCall
  /\ agg = [c \in CallIds |-> NoAggregates]
  /\ cache = {}
  /\ redis = {}
  /\ clock = 0
  /\ \E r \in BOOLEAN, k \in {<<>>, ApiKey}, n \in {1, 3, Endless}, form \in LinkForms :
       world = [redis |-> r, apiKey |-> k, lastPage |-> n, link |-> form,
                slots |-> {1},
                queries |-> {q \in Queries : /\ q.journalSymbol = <<"E","U","R","U","S","D">>
                                             /\ q.fromIso.h = 12
                                             /\ q.timespan # "hour"},
                instants |-> {TtlByTimespan.minute}]

SpecPagination == InitPagination /\ [][NextAggregates]_vars

\* ---- what is stored, and by whom
\* the call went through all of its pages and handed its list to setCacheAsync
FetchedAllPages(c) ==
  /\ agg[c].pc \in {"redisSet", "returned"}
  /\ agg[c].hit = "none"
  /\ Len(agg[c].requests) > 0
  /\ Len(agg[c].candles) = Len(agg[c].requests)

\* C27: every value held by either tier under a key is the whole list of one
\* call for that key that fetched all of its pages; a call that failed on a
\* page has left nothing of what it fetched in either tier; no stored list
\* mixes the pages of two calls.
C27_OnlyWholeListsOfOneCall ==
  /\ \A e \in cache :
       /\ \E c \in CallIds :
            /\ FetchedAllPages(c)
            /\ agg[c].key = e.key
            /\ e.value.data = agg[c].candles
       /\ \A i, j \in 1..Len(e.value.data) : e.value.data[i].o = e.value.data[j].o
  /\ \A e \in redis :
       \E c \in CallIds :
         /\ FetchedAllPages(c)
         /\ agg[c].key = e.key
         /\ e.raw = StringifyCandles(agg[c].candles)
  /\ \A c \in CallIds :
       agg[c].pc = "thrown" =>
         /\ agg[c].wroteAt = -1
         /\ \A e \in cache : \A i \in 1..Len(e.value.data) : e.value.data[i].o # c
         /\ \A e \in redis : \A i \in 1..Len(e.raw.json) : e.raw.json[i].o # c

\* two calls for one key overlapped, both fetched both pages and both wrote:
\* the local tier holds the list of the second, the shared tier that of the
\* first
C27_Witness ==
  /\ agg[1].wroteAt >= 0 /\ agg[2].wroteAt >= 0
  /\ agg[1].after = {} /\ agg[2].after = {}
  /\ agg[1].key = agg[2].key
  /\ agg[1].args.journalSymbol # agg[2].args.journalSymbol
  /\ \E e \in cache : e.key = agg[1].key /\ e.value.data = agg[2].candles
  /\ \E e \in redis : e.key = agg[1].key /\ e.raw = StringifyCandles(agg[1].candles)

\* ---- what a later call is served
\* the upstream query of the call: the URL of its first page
UpstreamQuery(c) ==
  AggregatesUrl(PolyTickerOf(agg[c].args), agg[c].args.fromIso, agg[c].args.toIso,
                agg[c].args.timespan, world.apiKey)

\* candle for candle the same, a volume left out read as undefined
SameCandles(a, b) ==
  /\ Len(a) = Len(b)
  /\ \A i \in 1..Len(a) :
       /\ \A f \in {"t", "o", "h", "l", "c"} : a[i][f] = b[i][f]
       /\ VolumeOf(a[i]) = VolumeOf(b[i])

\* call d began after call c had written, and looked the entry up no later
\* than the deadline of what c wrote
LooksUpInTime(c, d) ==
  /\ c \in agg[d].after
  /\ agg[d].lookedAt >= 0
  /\ agg[d].lookedAt <= agg[c].wroteAt + TtlByTimespan[agg[c].args.timespan]

ServedFromCache(c, d) ==
  /\ agg[d].requests = <<>>
  /\ agg[d].pc = "returned"
  /\ SameCandles(agg[d].result, agg[c].candles)

\* the local tier never returns an entry past its deadline
NeverReturnsExpired ==
  \A c \in CallIds : agg[c].hit = "memory" => agg[c].lookedAt <= agg[c].expires

\* C28 as stated: a call that follows a successful one with the same upstream
\* query (same normalized ticker, same date range, same timespan) while the
\* entry is not expired returns the cached candles without any upstream
\* request; the local tier never returns an expired entry.
C28_SameQueryServedFromCache ==
  /\ \A c, d \in CallIds :
       (LooksUpInTime(c, d) /\ UpstreamQuery(c) = UpstreamQuery(d))
       => ServedFromCache(c, d)
  /\ NeverReturnsExpired

\* C28: a call that follows a successful one with the same cache key (same
\* normalized ticker, same from and to texts, same timespan) and looks the
\* entry up while it is not expired returns the cached candles without any
\* upstream request; the local tier never returns an expired entry.
C28_SameKeyServedFromCache ==
  /\ \A c, d \in CallIds :
       (LooksUpInTime(c, d) /\ agg[c].key = agg[d].key)
       => ServedFromCache(c, d)
  /\ NeverReturnsExpired

\* the symbol written in another way, the day entry looked up on its
\* deadline: the local tier serves the first call's list
C28_Witness ==
  /\ LooksUpInTime(1, 2)
  /\ agg[1].key = agg[2].key
  /\ agg[1].args.journalSymbol # agg[2].args.journalSymbol
  /\ agg[2].lookedAt = agg[1].wroteAt + TtlByTimespan.day
  /\ agg[2].hit = "memory"
  /\ ServedFromCache(1, 2)

\* ---- pagination
\* the URL has a query that holds a parameter named apiKey
HasApiKeyParam(url) ==
  \E q \in 1..Len(url) :
    /\ url[q] = "?"
    /\ \A j \in 1..(q - 1) : url[j] \notin {"?", "#"}
    /\ \E k \in q..(Len(url) - 7) :
         /\ k = q \/ url[k] = "&"
         /\ SubSeq(url, k + 1, k + 7) = <<"a","p","i","K","e","y","=">>
         /\ \A j \in q..k : url[j] # "#"

\* C30: within one call a page is requested only after the response before it
\* was received and named it as continuation, candles are appended in page
\* order, at most 50 pages are requested however long the provider goes on
\* naming continuations, and every URL requested carries the apiKey
\* parameter.
C30_SequentialBoundedPagination ==
  \A c \in CallIds :
    /\ Len(agg[c].requests) <= MAX_PAGES
    /\ Len(agg[c].requests) <= Len(agg[c].links) + 1
    /\ \A k \in 2..Len(agg[c].requests) :
         /\ Len(agg[c].links[k - 1]) > 0
         /\ StartsWith(agg[c].requests[k], agg[c].links[k - 1])
    /\ Len(agg[c].candles) = Len(agg[c].links)
    /\ \A i \in 1..Len(agg[c].candles) : agg[c].candles[i].t = i
    /\ \A k \in 1..Len(agg[c].requests) : HasApiKeyParam(agg[c].requests[k])

\* the provider named a continuation on every page and the links held no
\* query: the call stopped after 50 pages and returned their candles
C30_Witness ==
  /\ agg[1].pc = "returned"
  /\ world.link = "path"
  /\ Len(agg[1].requests) = MAX_PAGES
  /\ Len(agg[1].links[MAX_PAGES]) > 0
  /\ Len(agg[1].result) = MAX_PAGES
  /\ HasApiKeyParam(agg[1].requests[MAX_PAGES])

\* ------------------------------------------------ the candle worker pool
\* Requests that name one to seven distinct symbols: the pool of
\* analyzePeriod has fewer workers than symbols from six symbols on.
PoolSymbols ==
  << <<"E","U","R","U","S","D">>, <<"G","B","P","U","S","D">>, <<"U","S","D","J","P","Y">>, <<"A","U","D","U","S","D">>, <<"U","S","D","C","A","D">>, <<"U","S","D","C","H","F">>,
     <<"N","Z","D","U","S","D">> >>
PoolSizes == {1, 5, 6, 7}
PoolRequests ==
  { Request("analyzePeriod", SubSeq(PoolSymbols, 1, n), <<>>, Instant(0), Instant(24),
            "", "") : n \in PoolSizes }
  \cup
  { Request("analyzePeriod", <<PoolSymbols[1], ToLowerCase(PoolSymbols[1]), PoolSymbols[2]>>,
            <<>>, Instant(0), Instant(24), "", "") }
PoolFetches == { o \in FetchOutcomes : o.k = "reject" \/ Len(o.candles) > 0 }

\* the indices the workers have taken, the fetches in flight, the failures
TakenBy(log, i) == { k \in 1..Len(log) : log[k].i = i }
InFlight(ws) == { w \in DOMAIN ws : ws[w].st = "await" }
NoFetchFailed(ws) == \A w \in DOMAIN ws : ws[w].st # "failed"
PoolCompleted(ws) == Len(ws) > 0 /\ \A w \in DOMAIN ws : ws[w].st = "done"

\* -------------------------------------------------- the news worker pool
\* NewsService.getNewsDigest.  digest.cached: the symbols whose cache entry
\* is unexpired; digest.stored: the symbols with maxPerSymbol articles in
\* storage; digest.out: the symbols answered; digest.failed: the symbols
\* whose processing threw; digest.log: the indices taken, in order.
NEWS_CONCURRENCY == 2
\* the failures one digest is made to meet
MaxDigestFailures == 2

\* const i = idx++: the worker runs on, without yielding, through the break
\* or every cached symbol, up to its first await (the read from storage)
RECURSIVE WorkerRun(_, _)
\* the cursor left where it was when the worker goes to its await
WorkerRun_KeepsCursor(d, w) ==
  IF d.idx >= Len(d.list)
  THEN [d EXCEPT !.idx = d.idx + 1, !.workers[w] = [st |-> "done", i |-> d.idx]]
  ELSE IF d.list[d.idx + 1] \in d.cached
  THEN WorkerRun([d EXCEPT !.idx = d.idx + 1,
                           !.log = Append(d.log, d.idx),
                           !.out = d.out \cup {d.list[d.idx + 1]}], w)
  ELSE [d EXCEPT !.log = Append(d.log, d.idx),
                 !.workers[w] = [st |-> "db", i |-> d.idx]]

WorkerRun(d, w) ==
  IF d.idx >= Len(d.list)
  THEN [d EXCEPT !.idx = d.idx + 1, !.workers[w] = [st |-> "done", i |-> d.idx]]
  ELSE IF d.list[d.idx + 1] \in d.cached
  THEN WorkerRun([d EXCEPT !.idx = d.idx + 1,
                           !.log = Append(d.log, d.idx),
                           !.out = d.out \cup {d.list[d.idx + 1]}], w)
  ELSE [d EXCEPT !.idx = d.idx + 1,
                 !.log = Append(d.log, d.idx),
                 !.workers[w] = [st |-> "db", i |-> d.idx]]

\* Array.from({ length: CONCURRENCY }, () => worker()): the workers start
\* one after the other
RECURSIVE StartWorkers(_, _, _)
StartWorkers(d, w, n) ==
  IF w > n THEN d ELSE StartWorkers(WorkerRun(d, w), w + 1, n)

\* Promise.all(workers) resolves when the last worker has left its loop
Settle(d) ==
  IF \A w \in DOMAIN d.workers : d.workers[w].st = "done"
  THEN [d EXCEPT !.pc = "returned"] ELSE d

GetNewsDigest(symbolLists, caches, stores) ==
  /\ digest.pc = "idle"
  /\ \E symbols \in symbolLists, enabled \in BOOLEAN, cached \in caches,
        stored \in stores :
       IF ~enabled \/ Len(symbols) = 0
       THEN digest' = [digest EXCEPT !.pc = "returned", !.enabled = enabled]
       ELSE LET list == Unique(symbols)
                n == Min(NEWS_CONCURRENCY, Max(1, Len(list)))
                d == [digest EXCEPT !.pc = "running", !.enabled = TRUE,
                                    !.list = list, !.cached = cached,
                                    !.stored = stored,
                                    !.workers = [w \in 1..n |-> [st |-> "new", i |-> -1]]]
            IN digest' = Settle(StartWorkers(d, 1, n))
  /\ UNCHANGED <<ctlVars, llmVars, coerceVars, utilVars, moreVars, gatewayVars, poolVars,
                 newsArticle, newsSymbolIndex, writers, dispatcher, tries, macroFlow>>

\* the catch around one symbol's processing: the worker goes on to the next
Caught(d, w) ==
  WorkerRun([d EXCEPT !.failed = d.failed \cup {d.list[d.workers[w].i + 1]}], w)

\* out[sym] = ...; this.cache.set(cacheKey, ...)
Answered(d, w) ==
  [d EXCEPT !.out = d.out \cup {d.list[d.workers[w].i + 1]},
            !.cached = d.cached \cup {d.list[d.workers[w].i + 1]}]

\* getArticlesBySymbolAndPeriod settles: enough stored articles answer the
\* symbol, fewer send the worker to the provider
DigestDbDone(w) ==
  /\ digest.pc = "running"
  /\ w \in DOMAIN digest.workers
  /\ digest.workers[w].st = "db"
  /\ \E ok \in BOOLEAN :
       /\ ~ok => Cardinality(digest.failed) < MaxDigestFailures
       /\ digest' = IF ~ok THEN Settle(Caught(digest, w))
                    ELSE IF digest.list[digest.workers[w].i + 1] \in digest.stored
                    THEN Settle(WorkerRun(Answered(digest, w), w))
                    ELSE [digest EXCEPT !.workers[w].st = "fetch1"]
  /\ UNCHANGED <<ctlVars, llmVars, coerceVars, utilVars, moreVars, gatewayVars, poolVars,
                 newsArticle, newsSymbolIndex, writers, dispatcher, tries, macroFlow>>

\* the two provider queries settle one after the other; after the second the
\* selection is answered, cached and handed to the write-through
DigestFetchDone(w) ==
  /\ digest.pc = "running"
  /\ w \in DOMAIN digest.workers
  /\ digest.workers[w].st \in {"fetch1", "fetch2"}
  /\ \E ok \in BOOLEAN :
       /\ ~ok => Cardinality(digest.failed) < MaxDigestFailures
       /\ digest' = IF ~ok THEN Settle(Caught(digest, w))
                    ELSE IF digest.workers[w].st = "fetch1"
                    THEN [digest EXCEPT !.workers[w].st = "fetch2"]
                    ELSE [Answered(digest, w) EXCEPT !.workers[w].st = "persist"]
  /\ UNCHANGED <<ctlVars, llmVars, coerceVars, utilVars, moreVars, gatewayVars, poolVars,
                 newsArticle, newsSymbolIndex, writers, dispatcher, tries, macroFlow>>

\* the write-through settles; its failure is logged and nothing more
DigestPersistDone(w) ==
  /\ digest.pc = "running"
  /\ w \in DOMAIN digest.workers
  /\ digest.workers[w].st = "persist"
  /\ digest' = Settle(WorkerRun(digest, w))
  /\ UNCHANGED <<ctlVars, llmVars, coerceVars, utilVars, moreVars, gatewayVars, poolVars,
                 newsArticle, newsSymbolIndex, writers, dispatcher, tries, macroFlow>>

\* symbol lists as analyzePeriod hands them over (line 214): normalized,
\* repeats kept
MaxDigestSymbols == 4
DigestLists ==
  { <<>>, <<PoolSymbols[1]>>, <<PoolSymbols[1], PoolSymbols[1]>>,
    SubSeq(PoolSymbols, 1, 2), SubSeq(PoolSymbols, 1, 3),
    <<PoolSymbols[1], PoolSymbols[2], PoolSymbols[1], PoolSymbols[3]>>,
    SubSeq(PoolSymbols, 1, MaxDigestSymbols) }
DigestCaches == { {}, {PoolSymbols[1]}, {PoolSymbols[2], PoolSymbols[3]} }
DigestStores == { {}, {PoolSymbols[1]}, {PoolSymbols[4]} }

\* Either pool on its own: a run serves one analyzePeriod request up to the
\* end of its candle pool, or one getNewsDigest call.
NextPools ==
  \/ digest.pc = "idle" /\ Receive(PoolRequests)
  \/ \E w \in 1..CONCURRENCY : FetchDone(w, PoolFetches)
  \/ pc = "idle" /\ GetNewsDigest(DigestLists, DigestCaches, DigestStores)
  \/ \E w \in 1..NEWS_CONCURRENCY : DigestDbDone(w)
  \/ \E w \in 1..NEWS_CONCURRENCY : DigestFetchDone(w)
  \/ \E w \in 1..NEWS_CONCURRENCY : DigestPersistDone(w)

SpecPools == InitRange /\ [][NextPools]_vars

\* the workers of the digest that are waiting for storage or the provider
DigestInFlight(d) == { w \in DOMAIN d.workers : d.workers[w].st \notin {"new", "done"} }
Occurrences(log, i) == { k \in 1..Len(log) : log[k] = i }

\* C31: in the candle pool of analyzePeriod (at most 5 workers) and in the
\* news pool of getNewsDigest (at most 2 workers), in every interleaving, no
\* list index is taken twice, the fetches in flight never outnumber the
\* pool, and when nothing failed every entry of the list has been taken
\* exactly once by the time the pool completes (the digest then answers
\* every symbol of its list).
C31_PoolsTakeEachIndexOnce ==
  /\ \A i \in 0..(Len(SymbolsOf(req)) + CONCURRENCY) : Cardinality(TakenBy(fetchLog, i)) <= 1
  /\ Cardinality(InFlight(workers)) <= Min(5, Len(SymbolsOf(req)))
  /\ PoolCompleted(workers) /\ NoFetchFailed(workers)
       => \A i \in 0..(Len(SymbolsOf(req)) - 1) : Cardinality(TakenBy(fetchLog, i)) = 1
  /\ \A i \in 0..(Len(digest.list) + NEWS_CONCURRENCY) :
       Cardinality(Occurrences(digest.log, i)) <= 1
  /\ Cardinality(DigestInFlight(digest)) <= 2
  /\ digest.pc = "returned" /\ digest.enabled /\ digest.failed = {}
       => /\ \A i \in 0..(Len(digest.list) - 1) :
               Cardinality(Occurrences(digest.log, i)) = 1
          /\ digest.out = { digest.list[k] : k \in 1..Len(digest.list) }

\* seven symbols went through the five candle workers
CandlePoolDrained ==
  /\ PoolCompleted(workers)
  /\ NoFetchFailed(workers)
  /\ Len(SymbolsOf(req)) = 7
  /\ Len(fetchLog) = 7

\* four symbols went through the two news workers
NewsPoolDrained ==
  /\ digest.pc = "returned"
  /\ digest.failed = {}
  /\ Len(digest.list) = MaxDigestSymbols
  /\ Len(digest.log) = MaxDigestSymbols
  /\ Len(digest.workers) = 2

C31_Witness == CandlePoolDrained \/ NewsPoolDrained


\* the fetch of list entry i has been started and has settled
FetchEnded(i) ==
  /\ TakenBy(fetchLog, i) # {}
  /\ \A w \in InFlight(workers) : workers[w].i # i

\* C32: once analyzePeriod has accepted a request, the candle fetch of every
\* requested symbol is eventually started and settles, whatever happens to
\* the fetches of the other symbols.
C32_EveryFetchIsStarted ==
  (pc = "candles") ~> (\A i \in 0..(Len(SymbolsOf(req)) - 1) : FetchEnded(i))

\* every worker has ended, one of them on a rejected fetch, and an entry of
\* the list was never fetched
C32_SymbolNeverFetched ==
  /\ req.endpoint = "analyzePeriod"
  /\ Len(workers) > 0
  /\ InFlight(workers) = {}
  /\ \E w \in DOMAIN workers : workers[w].st = "failed"
  /\ \E i \in 0..(Len(SymbolsOf(req)) - 1) : TakenBy(fetchLog, i) = {}


\* one analyzePeriod request up to the end of its candle pool; every pending
\* getForexAggregates settles
NextCandles ==
  \/ Receive(PoolRequests)
  \/ \E w \in 1..CONCURRENCY : FetchDone(w, PoolFetches)

RejectedFetches == { o \in PoolFetches : o.k = "reject" }

\* a pending getForexAggregates settles, by a rejection or by a result:
\* every request of fetchJson is aborted by its timer
FetchSettled(w) == FetchDone(w, RejectedFetches) \/ FetchDone(w, PoolFetches)

SpecCandlesFair ==
  /\ InitRange
  /\ [][NextCandles]_vars
  /\ \A w \in 1..CONCURRENCY : WF_vars(FetchSettled(w))


\* ---------------------------------------------------------------------------
\* News storage: NewsArticle (url unique) and NewsSymbolIndex (no unique
\* constraint on symbol and articleId), written by upsertArticleWithIndex
\* ---------------------------------------------------------------------------

MaxWriters == 3
NewsUrls == {<<"u", "1">>, <<"u", "2">>}
PublishedAt(url) == IF url = <<"u", "1">> THEN 1 ELSE 2
MaxPublishedAt == 2

StoreIdle ==
  UNCHANGED <<ctlVars, llmVars, coerceVars, utilVars, moreVars, gatewayVars, poolVars,
              digest, dispatcher, tries, macroFlow>>

\* the NewsArticle row of a url, if any
ArticleOf(url) == { a \in newsArticle : a.url = url }

\* upsertArticleWithIndex is called: its first await is the article upsert
upsertArticleWithIndex(symbols, urls) ==
  /\ Len(writers) < MaxWriters
  /\ \E s \in symbols, u \in urls :
       writers' = Append(writers, [pc |-> "upsert", symbol |-> s, url |-> u, articleId |-> 0])
  /\ UNCHANGED <<newsArticle, newsSymbolIndex>>
  /\ StoreIdle

\* prisma.newsArticle.upsert where url: one statement, the row of the url is
\* updated or created
upsertArticle(k) ==
  /\ k \in DOMAIN writers
  /\ writers[k].pc = "upsert"
  /\ LET found == ArticleOf(writers[k].url)
         id == IF found = {} THEN Cardinality(newsArticle) + 1
               ELSE (CHOOSE a \in found : TRUE).id
     IN /\ newsArticle' = newsArticle \cup {[id |-> id, url |-> writers[k].url]}
        /\ writers' = [writers EXCEPT ![k].pc = "find", ![k].articleId = id]
  /\ UNCHANGED newsSymbolIndex
  /\ StoreIdle

\* prisma.newsSymbolIndex.findFirst settles; without a row the writer goes on
\* to createSymbolIndex
findFirst(k) ==
  /\ k \in DOMAIN writers
  /\ writers[k].pc = "find"
  /\ LET existing == \E r \in DOMAIN newsSymbolIndex :
                        /\ newsSymbolIndex[r].symbol = writers[k].symbol
                        /\ newsSymbolIndex[r].articleId = writers[k].articleId
     IN writers' = [writers EXCEPT ![k].pc = IF existing THEN "done" ELSE "create"]
  /\ UNCHANGED <<newsArticle, newsSymbolIndex>>
  /\ StoreIdle

\* prisma.newsSymbolIndex.create
createSymbolIndex(k) ==
  /\ k \in DOMAIN writers
  /\ writers[k].pc = "create"
  /\ newsSymbolIndex' =
       Append(newsSymbolIndex, [symbol |-> writers[k].symbol, articleId |-> writers[k].articleId,
                                publishedAt |-> PublishedAt(writers[k].url)])
  /\ writers' = [writers EXCEPT ![k].pc = "done"]
  /\ UNCHANGED newsArticle
  /\ StoreIdle

\* the index rows of a period, latest first
RECURSIVE RowsDesc(_, _, _)
RowsDesc(rows, from, t) ==
  IF t < from THEN <<>>
  ELSE SelectSeq(rows, LAMBDA r : r.publishedAt = t) \o RowsDesc(rows, from, t - 1)

\* the articles (by id) of the index rows of a symbol in [from, to], at most limit
getArticlesBySymbolAndPeriod(symbol, from, to, limit) ==
  LET rows == RowsDesc(SelectSeq(newsSymbolIndex, LAMBDA r : r.symbol = symbol), from, to)
      taken == SubSeq(rows, 1, Min(limit, Len(rows)))
  IN [i \in 1..Len(taken) |-> taken[i].articleId]

NextNewsStore ==
  \/ upsertArticleWithIndex({PoolSymbols[1], PoolSymbols[2]}, NewsUrls)
  \/ \E k \in 1..MaxWriters : upsertArticle(k)
  \/ \E k \in 1..MaxWriters : findFirst(k)
  \/ \E k \in 1..MaxWriters : createSymbolIndex(k)

SpecNewsStore == InitRange /\ [][NextNewsStore]_vars

NoRepeat(xs) == \A i, j \in DOMAIN xs : xs[i] = xs[j] => i = j
WritersDone == Len(writers) > 0 /\ \A k \in DOMAIN writers : writers[k].pc = "done"

\* C33: however the executions of upsertArticleWithIndex for a symbol and an
\* article url interleave, when they have ended storage holds exactly one
\* NewsArticle row for the url and exactly one NewsSymbolIndex row for the
\* symbol and the article, and getArticlesBySymbolAndPeriod returns no
\* article twice.
C33_OneArticleOneIndexRow ==
  WritersDone =>
    \A k \in DOMAIN writers :
      /\ Cardinality(ArticleOf(writers[k].url)) = 1
      /\ Cardinality({ r \in DOMAIN newsSymbolIndex :
                         /\ newsSymbolIndex[r].symbol = writers[k].symbol
                         /\ newsSymbolIndex[r].articleId = writers[k].articleId }) = 1
      /\ NoRepeat(getArticlesBySymbolAndPeriod(writers[k].symbol, 0, MaxPublishedAt, MaxWriters))

\* two executions for one symbol and one url have ended and the article is
\* indexed twice under the symbol
C33_IndexedTwice ==
  /\ WritersDone
  /\ \E s \in {PoolSymbols[1], PoolSymbols[2]} :
       ~NoRepeat(getArticlesBySymbolAndPeriod(s, 0, MaxPublishedAt, MaxWriters))


\* ---------------------------------------------------------------------------
\* The process-wide undici dispatcher, swapped around every model call of
\* GeminiService (analyzeText, tryOnce and the fallback-model calls)
\* ---------------------------------------------------------------------------

MaxTries == 4

DispatcherIdle ==
  UNCHANGED <<ctlVars, llmVars, coerceVars, utilVars, moreVars, gatewayVars, poolVars,
              digest, newsArticle, newsSymbolIndex, writers, macroFlow>>

\* whether proxyDispatcher is set: fixed by the constructor, so every call of
\* a run sees what the first one saw
ProxyChoices(proxies) == IF tries = <<>> THEN proxies ELSE {tries[1].proxy}

\* a model call starts: with a proxy, the current global dispatcher is saved
\* in prev and the proxy dispatcher installed; then the call awaits the model
TryEnter(proxies) ==
  /\ Len(tries) < MaxTries
  /\ \E p \in ProxyChoices(proxies) :
       /\ tries' = Append(tries, [pc |-> "await", proxy |-> p,
                                  prev |-> IF p THEN dispatcher ELSE "null"])
       /\ dispatcher' = IF p THEN "proxy" ELSE dispatcher
  /\ DispatcherIdle

\* the call settles (result, error or timeout): finally restores prev
TryExit(k) ==
  /\ k \in DOMAIN tries
  /\ tries[k].pc = "await"
  /\ tries' = [tries EXCEPT ![k].pc = "done"]
  /\ dispatcher' = IF tries[k].proxy /\ tries[k].prev # "null" THEN tries[k].prev
                   ELSE dispatcher
  /\ DispatcherIdle

NextDispatcher ==
  \/ TryEnter(BOOLEAN)
  \/ \E k \in 1..MaxTries : TryExit(k)

SpecDispatcher == InitRange /\ [][NextDispatcher]_vars

NoCallInFlight == \A k \in DOMAIN tries : tries[k].pc = "done"

\* C34: with a proxy configured, whenever no model call is in flight the
\* global dispatcher is the one installed before the first call, however the
\* calls overlap.
C34_DispatcherRestored ==
  (Len(tries) > 0 /\ tries[1].proxy /\ NoCallInFlight) => dispatcher = "default"

\* two overlapping calls have ended and the proxy dispatcher is still installed
C34_ProxyLeftInstalled ==
  /\ Len(tries) = 2
  /\ tries[1].proxy
  /\ NoCallInFlight
  /\ dispatcher = "proxy"


\* ---------------------------------------------------------------------------
\* The macro read-through of analyzePeriod: loadMacroDataFromDb, then
\* hasAnyData or fredService.getMacroDataUS and persistMacroData
\* ---------------------------------------------------------------------------

\* instants are counted in days; an ISO string holds its instant
ToISOString(date) == [iso |-> date]
NewDate(time) == time.iso

LOOKBACK_DAYS == 400
MaxMacroRequests == 3

desiredKeys == <<<<"c","p","i">>, <<"g","d","p">>, <<"p","o","l","i","c","y","R","a","t","e">>, <<"u","n","e","m","p","l","o","y","m","e","n","t">>, <<"p","m","i">>>>
FredKeys == <<<<"c","p","i">>, <<"g","d","p">>, <<"p","o","l","i","c","y","R","a","t","e">>, <<"u","n","e","m","p","l","o","y","m","e","n","t">>>>
KeySet(keys) == { keys[i] : i \in DOMAIN keys }

makeSeriesCode(country, key) ==
  ToUpperCase(IF Len(country) = 0 THEN <<"G","L","O","B","A","L">> ELSE country) \o <<"_">> \o ToUpperCase(key)

MacroSeriesOf(points, country) ==
  JObj([series |-> JArr(points), meta |-> JObj([country |-> JStr(country)])])

\* the rows of a set of observations, earliest first
RECURSIVE OrderByDateAsc(_)
OrderByDateAsc(rows) ==
  IF rows = {} THEN <<>>
  ELSE LET first == CHOOSE o \in rows : \A q \in rows : o.date <= q.date
       IN <<first>> \o OrderByDateAsc(rows \ {first})

\* prisma.macroObservation.findMany: the latest rows of a series in [from, to]
getSeriesObservationsLatest(seriesId, from, to) ==
  OrderByDateAsc({ o \in macroObservation :
                     /\ o.seriesId = seriesId
                     /\ o.date >= from /\ o.date <= to
                     /\ o.isLatest })

\* the keys loadMacroDataFromDb answers: the read did not throw, the series
\* exists and has observations in the window
LoadedKeys(country, from, to, keys, failed) ==
  { key \in KeySet(keys) \ failed :
      /\ makeSeriesCode(country, key) \in macroFlow.series
      /\ Len(getSeriesObservationsLatest(makeSeriesCode(country, key), from, to)) > 0 }

loadMacroDataFromDb(country, fromIso, toIso, keys, failed) ==
  JObj([key \in LoadedKeys(country, NewDate(fromIso), NewDate(toIso), keys, failed) |->
          LET obs == getSeriesObservationsLatest(makeSeriesCode(country, key),
                                                 NewDate(fromIso), NewDate(toIso))
          IN MacroSeriesOf([i \in 1..Len(obs) |-> Point(ToISOString(obs[i].date), obs[i].value)],
                           country)])

\* FredService.getSeries: undefined when the request failed or nothing came
getSeries(observations, ok, country) ==
  IF ~ok \/ Len(observations) = 0 THEN JUndef
  ELSE MacroSeriesOf([i \in 1..Len(observations) |->
                        Point(ToISOString(observations[i].date), observations[i].value)],
                     country)

\* the series as fetched, nothing cut off
clip_WholeSeries(s, fromIso, toIso) == s

clip(s, fromIso, toIso) ==
  IF s.t = "undef" THEN JUndef
  ELSE MacroSeriesOf(SelectSeq(s.f.series.e,
                               LAMBDA p : /\ NewDate(p.time) >= NewDate(fromIso)
                                          /\ NewDate(p.time) <= NewDate(toIso)),
                     s.f.meta.f.country.s)

\* upstream: what FRED holds per key, and the keys whose request succeeds
getMacroDataUS(enabled, upstream, okKeys, fromIso, toIso) ==
  IF ~enabled THEN JObj(<<>>)
  ELSE JObj([key \in KeySet(desiredKeys) |->
               IF key \in KeySet(FredKeys)
               THEN clip(getSeries(upstream[key], key \in okKeys, <<"U","S">>), fromIso, toIso)
               ELSE JUndef])

\* the points of a key of a bundle
SeriesPoints(data, key) ==
  IF data.t = "obj" /\ key \in DOMAIN data.f /\ data.f[key].t # "undef"
  THEN data.f[key].f.series.e ELSE <<>>

\* the keys persistMacroData writes: present, non-empty, not failing
PersistedKeys(data, failed) ==
  { key \in KeySet(desiredKeys) \ failed : Len(SeriesPoints(data, key)) > 0 }

RECURSIVE UpsertPoints(_, _, _, _)
UpsertPoints(rows, seriesId, points, i) ==
  IF i > Len(points) THEN rows
  ELSE UpsertPoints(UpsertObservationRow(rows, seriesId, NewDate(points[i].time),
                                         points[i].value, 0),
                    seriesId, points, i + 1)

RECURSIVE PersistObservations(_, _, _, _)
PersistObservations(rows, data, failed, k) ==
  IF k > Len(desiredKeys) THEN rows
  ELSE PersistObservations(
         IF desiredKeys[k] \in PersistedKeys(data, failed)
         THEN UpsertPoints(rows, makeSeriesCode(data.f[desiredKeys[k]].f.meta.f.country.s,
                                                desiredKeys[k]),
                           SeriesPoints(data, desiredKeys[k]), 1)
         ELSE rows,
         data, failed, k + 1)

RECURSIVE PersistLatest(_, _, _, _)
PersistLatest(rows, data, failed, k) ==
  IF k > Len(desiredKeys) THEN rows
  ELSE PersistLatest(
         IF desiredKeys[k] \in PersistedKeys(data, failed)
         THEN LET points == SeriesPoints(data, desiredKeys[k])
                  last == points[Len(points)]
              IN UpsertLatestRow(rows, makeSeriesCode(data.f[desiredKeys[k]].f.meta.f.country.s,
                                                      desiredKeys[k]),
                                 NewDate(last.time), last.value, 0)
         ELSE rows,
         data, failed, k + 1)

MacroIdle ==
  UNCHANGED <<ctlVars, llmVars, coerceVars, journalSymbol, mapped, pg, upsert, ind, moreVars,
              gatewayVars, poolVars, digest, newsArticle, newsSymbolIndex, writers,
              dispatcher, tries>>

extendedFrom(flow) == ToISOString(flow.from - LOOKBACK_DAYS)
extendedTo(flow) == ToISOString(flow.to)

\* whether storage holds an observation of a requested key in the window
StorageHolds(flow, key) ==
  \E o \in macroObservation :
    /\ o.seriesId = makeSeriesCode(<<"U","S">>, key)
    /\ o.date >= flow.from - LOOKBACK_DAYS
    /\ o.date <= flow.to

\* analyzePeriod reaches its macro step and awaits loadMacroDataFromDb
MacroRequest(windows) ==
  /\ macroFlow.pc \in {"idle", "done"}
  /\ macroFlow.n < MaxMacroRequests
  /\ \E w \in windows :
       macroFlow' = [macroFlow EXCEPT
                       !.pc = "load", !.n = @ + 1, !.from = w.from, !.to = w.to,
                       !.readFailed = {}, !.persistFailed = {}, !.source = "none",
                       !.macroData = JObj(<<>>), !.fetched = JUndef, !.miss = FALSE,
                       !.prev = [n |-> macroFlow.n, from |-> macroFlow.from, to |-> macroFlow.to,
                                 source |-> macroFlow.source, fetched |-> macroFlow.fetched,
                                 miss |-> macroFlow.miss,
                                 persistFailed |-> macroFlow.persistFailed]]
  /\ UNCHANGED <<macroObservation, macroLatest>>
  /\ MacroIdle

\* loadMacroDataFromDb settles: the reads of the keys in failed threw
LoadMacroDone(failures) ==
  /\ macroFlow.pc = "load"
  /\ \E failed \in failures :
       LET dbMacro == loadMacroDataFromDb(<<"U","S">>, extendedFrom(macroFlow),
                                          extendedTo(macroFlow), desiredKeys, failed)
       IN macroFlow' =
            IF hasAnyData(dbMacro)
            THEN [macroFlow EXCEPT !.pc = "done", !.readFailed = failed,
                                   !.macroData = dbMacro, !.source = "db"]
            ELSE [macroFlow EXCEPT !.pc = "fred", !.readFailed = failed,
                                   !.miss = \A i \in DOMAIN desiredKeys :
                                               ~StorageHolds(macroFlow, desiredKeys[i])]
  /\ UNCHANGED <<macroObservation, macroLatest>>
  /\ MacroIdle

\* fredService.getMacroDataUS settles; persistMacroData is awaited
FredMacroDone(enableds, upstreams, oks) ==
  /\ macroFlow.pc = "fred"
  /\ \E enabled \in enableds, upstream \in upstreams, okKeys \in oks :
       macroFlow' = [macroFlow EXCEPT
                       !.pc = "persist",
                       !.fetched = getMacroDataUS(enabled, upstream, okKeys,
                                                  extendedFrom(macroFlow),
                                                  extendedTo(macroFlow))]
  /\ UNCHANGED <<macroObservation, macroLatest>>
  /\ MacroIdle

\* persistMacroData settles (the keys in failed threw and were skipped); the
\* fetched bundle is the macro data of the response
PersistMacroDone(failures) ==
  /\ macroFlow.pc = "persist"
  /\ \E failed \in failures :
       /\ macroObservation' = PersistObservations(macroObservation, macroFlow.fetched, failed, 1)
       /\ macroLatest' = PersistLatest(macroLatest, macroFlow.fetched, failed, 1)
       /\ macroFlow' = [macroFlow EXCEPT
                          !.pc = "done", !.source = "fred",
                          !.macroData = macroFlow.fetched,
                          !.persistFailed = failed \cap PersistedKeys(macroFlow.fetched, {}),
                          !.series = @ \cup { makeSeriesCode(<<"U","S">>, key) :
                                                key \in PersistedKeys(macroFlow.fetched, failed) }]
  /\ MacroIdle

\* what FRED holds: observations in and out of the windows requested
FredUpstream ==
  [key \in KeySet(FredKeys) |->
     CASE key = <<"c","p","i">> -> <<[date |-> -405, value |-> 1], [date |-> -395, value |-> 2],
                            [date |-> 3, value |-> 3], [date |-> 8, value |-> 4]>>
       [] key = <<"g","d","p">> -> <<[date |-> -395, value |-> 7]>>
       [] key = <<"p","o","l","i","c","y","R","a","t","e">> -> <<[date |-> 20, value |-> 9]>>
       [] OTHER -> <<>>]
MacroWindows == { [from |-> 0, to |-> 5], [from |-> 10, to |-> 15] }
ReadFailures == { {}, {<<"c","p","i">>}, KeySet(desiredKeys) }
FredOks == { KeySet(FredKeys), {<<"c","p","i">>}, {} }
PersistFailures == { {}, {<<"c","p","i">>} }

NextMacroFlow ==
  \/ MacroRequest(MacroWindows)
  \/ LoadMacroDone(ReadFailures)
  \/ FredMacroDone(BOOLEAN, {FredUpstream}, FredOks)
  \/ PersistMacroDone(PersistFailures)

SpecMacroFlow == InitRange /\ [][NextMacroFlow]_vars

\* the request follows a fallback fetch over the same window that returned
\* an observation and was persisted
FollowsPersistedFetch ==
  /\ macroFlow.pc = "done"
  /\ macroFlow.prev.source = "fred"
  /\ macroFlow.prev.from = macroFlow.from /\ macroFlow.prev.to = macroFlow.to
  /\ hasAnyData(macroFlow.prev.fetched)
  /\ macroFlow.prev.persistFailed = {}

ReadsWhatWasFetched ==
  /\ macroFlow.source = "db"
  /\ \A i \in DOMAIN desiredKeys :
       SeriesPoints(macroFlow.macroData, desiredKeys[i])
         = SeriesPoints(macroFlow.prev.fetched, desiredKeys[i])

\* C35 as stated: the external macro API is called only when storage holds
\* no observation of any requested key in [from - 400 days, to]; after such
\* a fetch returned an observation and was persisted, the following request
\* over the same window reads the same observations from storage and makes
\* no external call.
C35_StorageFirst ==
  /\ macroFlow.pc \in {"fred", "persist"}
       => \A i \in DOMAIN desiredKeys : ~StorageHolds(macroFlow, desiredKeys[i])
  /\ FollowsPersistedFetch => ReadsWhatWasFetched

\* C35, amended: the external macro API is called only when the storage read
\* yields no observation: for every requested key, storage holds none in
\* [from - 400 days, to] or the read of the key failed; after a fetch made
\* when storage held none returned an observation and was persisted, a
\* following request over the same window whose reads all succeed reads the
\* same observations from storage and makes no external call.
C35_StorageReadFirst ==
  /\ macroFlow.pc \in {"fred", "persist"}
       => \A i \in DOMAIN desiredKeys :
            \/ ~StorageHolds(macroFlow, desiredKeys[i])
            \/ desiredKeys[i] \in macroFlow.readFailed
  /\ (FollowsPersistedFetch /\ macroFlow.prev.miss /\ macroFlow.readFailed = {})
       => ReadsWhatWasFetched

\* a request was answered from storage with the two observations its
\* predecessor had fetched and persisted
C35_Witness ==
  /\ FollowsPersistedFetch
  /\ macroFlow.prev.miss
  /\ macroFlow.readFailed = {}
  /\ macroFlow.source = "db"
  /\ Len(SeriesPoints(macroFlow.macroData, <<"c","p","i">>)) = 2


\* ---------------------------------------------------------------------------
\* getIndicatorsAt, every field of the snapshot
\* ---------------------------------------------------------------------------

\* Number(x.toFixed(d)) for scale = 10^d
ToFixedScaled(x, scale) ==
  IF ~IsFinite(x) THEN NaN
  ELSE IF IsZero(x) THEN x
  ELSE B64Div(RoundB64(x.neg, Millionths(BMul(x.sig, BFromInt(scale)), x.exp), 0, FALSE),
              B64FromInt(scale))
ToFixed2(x) == ToFixedScaled(x, 100)
ToFixed4(x) == ToFixedScaled(x, 10000)

\* (Math.abs(c) || 1) * 0.0005
SlopeThreshold(c) ==
  Times(IF IsZero(c) THEN Num(1) ELSE MathAbs(c), Quot(5, 10000))

SlopeDirection(slope, thr) ==
  IF LessThan(thr, slope) THEN "up"
  ELSE IF LessThan(slope, B64Neg(thr)) THEN "down"
  ELSE "flat"

DirBetween(a, c) ==
  IF ~IsFinite(a) \/ ~IsFinite(c) THEN "undefined"
  ELSE SlopeDirection(Minus(c, a), SlopeThreshold(c))

\* i = vs.length - 1, j = Math.max(0, i - lookback)
dirFromSlope(vs, lookback) ==
  IF Len(vs) = 0 THEN "undefined"
  ELSE DirBetween(vs[Max(1, Len(vs) - lookback)], vs[Len(vs)])

\* atr14v / close
AtrPct(atr14v, close) ==
  IF IsFinite(atr14v) /\ IsFinite(close) /\ ~IsZero(close) THEN Over(atr14v, close) ELSE NaN

\* (close / ema200v - 1) * 10000
CloseVsEma200Bps(close, ema200v) ==
  IF IsFinite(close) /\ IsFinite(ema200v) /\ ~IsZero(ema200v)
  THEN Times(Minus(Over(close, ema200v), Num(1)), Num(10000))
  ELSE NaN

ClosesOf(candles) == [i \in 1..Len(candles) |-> candles[i].c]

\* the fields read from the series of buildSeries at index at
SnapshotFields(candles, closes, at, ema200Arr, atr14v) ==
  [ema20 |-> ToFixed6(ema(closes, 20)[at + 1]),
   ema50 |-> ToFixed6(ema(closes, 50)[at + 1]),
   ema200 |-> ToFixed6(ema200Arr[at + 1]),
   sma20 |-> ToFixed6(sma(closes, 20)[at + 1]),
   sma50 |-> ToFixed6(sma(closes, 50)[at + 1]),
   sma200 |-> ToFixed6(sma(closes, 200)[at + 1]),
   rsi14 |-> ToFixed2(rsi(closes, 14)[at + 1]),
   atr14 |-> ToFixed6(atr14v),
   atrPct |-> ToFixed4(AtrPct(atr14v, closes[at + 1])),
   ema200Slope |-> dirFromSlope(ema200Arr, 2),
   closeVsEma200Bps |-> ToFixed2(CloseVsEma200Bps(closes[at + 1], ema200Arr[at + 1]))]

\* undefined when there is no candle; a number field that is undefined is NaN
IndicatorSnapshot(candles, timestamp) ==
  IF ~getIndicatorsAt(candles, timestamp).defined THEN [head |-> NoSnapshot]
  ELSE [head |-> getIndicatorsAt(candles, timestamp),
        series |-> SnapshotFields(candles, ClosesOf(candles),
                                  findCandleIndexAtOrBefore(candles, timestamp),
                                  ema(ClosesOf(candles), 200),
                                  atr(candles, 14)[findCandleIndexAtOrBefore(candles, timestamp) + 1])]

\* two series that share their candles up to the resolved index and go on
\* differently after the timestamp
MaxShared == 2
MaxLater == 2
SharedTimes == { 2 * i : i \in 1..MaxShared }
LaterTimes == { 2 * (MaxShared + i) : i \in 1..MaxLater }
RisingShape == [h |-> Num(14), l |-> Num(11), c |-> Num(13)]
SharedShapes == { [h |-> Num(12), l |-> Num(8), c |-> Num(10)], [h |-> Num(2), l |-> Num(1), c |-> Quot(5, 3)] }

RECURSIVE SeriesOver(_, _, _)
SeriesOver(n, times, shapes) ==
  IF n = 0 THEN { <<>> }
  ELSE LET shorter == SeriesOver(n - 1, times, shapes)
       IN shorter
            \cup { q \in { Append(r, Candle(t, shape)) :
                            r \in { r \in shorter : Len(r) = n - 1 },
                            t \in times, shape \in shapes } : Ascending(q) }

SharedSeries == { p \in SeriesOver(MaxShared, SharedTimes, SharedShapes) : Len(p) > 0 }
LaterSeries == SeriesOver(MaxLater, LaterTimes, {RisingShape, [h |-> Num(2), l |-> Num(1), c |-> Quot(5, 3)]})
SnapshotTimes == { 2 * MaxShared, 2 * MaxShared + 1 }

InitSnapshot ==
  /\ ControllerIdle
  /\ ServiceIdle({KeyWithFallback})
  /\ CoerceIdle
  /\ journalSymbol = <<>>
  /\ mapped = NoMapped
  /\ pg = PolygonIdle
  /\ macroObservation = {}
  /\ macroLatest = {}
  /\ upsert = NoUpsert
  /\ ind = IndicatorsIdle
  /\ GatewayIdle
  /\ FlowIdle
  /\ \E p \in SharedSeries, x \in {<<>>, <<Candle(2 * MaxShared + 2, RisingShape)>>},
        y \in LaterSeries, ts \in SnapshotTimes :
       call = [op |-> "pair", args |-> [x |-> p \o x, y |-> p \o y, ts |-> ts], out |-> <<>>]

\* getIndicatorsAt on either series, for the same timestamp
GetIndicatorsAtBoth ==
  /\ call.op = "pair"
  /\ call' = [call EXCEPT !.op = "getIndicatorsAt",
                          !.out = [x |-> IndicatorSnapshot(call.args.x, call.args.ts),
                                   y |-> IndicatorSnapshot(call.args.y, call.args.ts)]]
  /\ UNCHANGED <<ctlVars, llmVars, coerceVars, utilVars, gatewayVars, poolVars, flowVars>>

NextSnapshot == GetIndicatorsAtBoth

SpecSnapshot == InitSnapshot /\ [][NextSnapshot]_vars

\* the candles of a series up to and including index at
UpTo(candles, at) == SubSeq(candles, 1, at + 1)

\* C36: two candle series that agree up to and including the resolved
\* timeIndex, and differ only in candles later than the timestamp, yield the
\* same snapshot from getIndicatorsAt, ema200Slope included.
C36_SnapshotIsPointInTime ==
  call.op = "getIndicatorsAt" =>
    LET at == call.out.x.head.timeIndex
    IN (/\ call.out.y.head.timeIndex = at
        /\ UpTo(call.args.x, at) = UpTo(call.args.y, at)
        /\ \A i \in (at + 2)..Len(call.args.x) : call.args.x[i].t > call.args.ts
        /\ \A i \in (at + 2)..Len(call.args.y) : call.args.y[i].t > call.args.ts)
       => call.out.x = call.out.y

\* one series ends at the timestamp, the other goes on rising: the
\* snapshots differ in ema200Slope alone
C36_SlopeLooksAhead ==
  /\ call.op = "getIndicatorsAt"
  /\ call.out.x.head = call.out.y.head
  /\ call.out.x.series.ema200Slope = "flat"
  /\ call.out.y.series.ema200Slope = "up"
  /\ [call.out.x.series EXCEPT !.ema200Slope = "up"] = call.out.y.series


\* ---------------------------------------------------------------------------
\* The enrichment of the submitted trades (analyzePeriod, lines 196-209) over
\* trades as objects: every field a client may have sent is kept apart
\* ---------------------------------------------------------------------------

TimeValue(ts) == [t |-> "num", v |-> ts]

\* a || b on values that are undefined, strings or numbers
Truthy1(v) ==
  \/ v.t = "str" /\ Len(v.s) > 0
  \/ v.t = "num" /\ v.v # 0
  \/ v.t \in {"obj", "arr"}
OrElseValue(a, b) == IF Truthy1(a) THEN a ELSE b

\* { ...t, [name]: value }
SpreadWith(t, name, value) ==
  JObj([k \in DOMAIN t.f \cup {name} |-> IF k = name THEN value ELSE t.f[k]])

\* getIndicatorsSnapshot: either side undefined when its time is null or undefined
SnapshotSide(candles, time) ==
  IF time.t \in {"undef", "null"} THEN JUndef
  ELSE [t |-> "snapshot", v |-> IndicatorSnapshot(candles, time.v)]

getIndicatorsSnapshot(candles, entryTime, exitTime) ==
  JObj([entry |-> SnapshotSide(candles, entryTime), exit |-> SnapshotSide(candles, exitTime)])

\* whether candlesBySymbol holds a non-empty list for the trade's symbol
HasCandles(t, bySymbol) ==
  /\ Truthy1(Get(t, "symbol"))
  /\ normalizeJournalSymbol(Get(t, "symbol").s) \in DOMAIN bySymbol
  /\ Len(bySymbol[normalizeJournalSymbol(Get(t, "symbol").s)]) > 0

SnapshotOfTrade(t, bySymbol) ==
  getIndicatorsSnapshot(bySymbol[normalizeJournalSymbol(Get(t, "symbol").s)],
                        OrElseValue(Get(t, "entryTime"),
                                    OrElseValue(Get(t, "timestamp"), Get(t, "time"))),
                        Get(t, "exitTime"))

\* an empty candle list enriched as well
EnrichTrade_AnyList(t, bySymbol, throws) ==
  IF /\ Truthy1(Get(t, "symbol"))
     /\ normalizeJournalSymbol(Get(t, "symbol").s) \in DOMAIN bySymbol
     /\ ~throws
  THEN SpreadWith(t, "indicators", SnapshotOfTrade(t, bySymbol))
  ELSE t

\* one turn of trades.map; throws: the snapshot computation threw
EnrichTrade(t, bySymbol, throws) ==
  IF HasCandles(t, bySymbol) /\ ~throws
  THEN SpreadWith(t, "indicators", SnapshotOfTrade(t, bySymbol))
  ELSE t

EnrichTrades(trades, bySymbol, throwing) ==
  [i \in 1..Len(trades) |-> EnrichTrade(trades[i], bySymbol, i \in throwing)]

MaxEnriched == 2
EurUsdCandles == <<Candle(2, [h |-> Num(12), l |-> Num(8), c |-> Num(10)])>>
EnrichCandles ==
  { (PoolSymbols[1] :> EurUsdCandles) @@ (PoolSymbols[3] :> <<>>),
    (PoolSymbols[1] :> <<>>) }
SubmittedIndicators == JObj([entry |-> JStr(<<"m", "i", "n", "e">>)])
SubmittedTrades ==
  { JObj([id |-> JStr(<<"T", "1">>), symbol |-> JStr(PoolSymbols[1]),
          entryTime |-> TimeValue(2), exitTime |-> TimeValue(3)]),
    JObj([id |-> JStr(<<"T", "2">>), symbol |-> JStr(ToLowerCase(PoolSymbols[1])),
          time |-> TimeValue(1)]),
    JObj([id |-> JStr(<<"T", "3">>), symbol |-> JStr(PoolSymbols[2]), entryTime |-> TimeValue(2)]),
    JObj([id |-> JStr(<<"T", "4">>), symbol |-> JStr(PoolSymbols[3]), entryTime |-> TimeValue(2)]),
    JObj([id |-> JStr(<<"T", "5">>), note |-> JStr(<<"n">>)]),
    JObj([id |-> JStr(<<"T", "6">>), symbol |-> JStr(PoolSymbols[1]), entryTime |-> TimeValue(2),
          indicators |-> SubmittedIndicators]),
    JObj([id |-> JStr(<<"T", "7">>), symbol |-> JStr(PoolSymbols[2]),
          indicators |-> SubmittedIndicators]) }

RECURSIVE ListsUpTo(_, _)
ListsUpTo(n, items) ==
  IF n = 0 THEN { <<>> }
  ELSE LET shorter == ListsUpTo(n - 1, items)
       IN shorter \cup { Append(q, x) : q \in { r \in shorter : Len(r) = n - 1 }, x \in items }

InitEnrich ==
  /\ ControllerIdle
  /\ ServiceIdle({KeyWithFallback})
  /\ CoerceIdle
  /\ journalSymbol = <<>>
  /\ mapped = NoMapped
  /\ pg = PolygonIdle
  /\ macroObservation = {}
  /\ macroLatest = {}
  /\ upsert = NoUpsert
  /\ ind = IndicatorsIdle
  /\ GatewayIdle
  /\ FlowIdle
  /\ \E trades \in ListsUpTo(MaxEnriched, SubmittedTrades), bySymbol \in EnrichCandles,
        throwing \in SUBSET (1..MaxEnriched) :
       /\ throwing \subseteq 1..Len(trades)
       /\ call = [op |-> "trades",
                  args |-> [trades |-> trades, bySymbol |-> bySymbol, throwing |-> throwing],
                  out |-> <<>>]

EnrichSubmitted ==
  /\ call.op = "trades"
  /\ call' = [call EXCEPT !.op = "enrich",
                          !.out = EnrichTrades(call.args.trades, call.args.bySymbol,
                                               call.args.throwing)]
  /\ UNCHANGED <<ctlVars, llmVars, coerceVars, utilVars, gatewayVars, poolVars, flowVars>>

NextEnrich == EnrichSubmitted

SpecEnrich == InitEnrich /\ [][NextEnrich]_vars

\* trade i of the call is enriched: its symbol has candles and nothing threw
IsEnriched(i) ==
  /\ HasCandles(call.args.trades[i], call.args.bySymbol)
  /\ i \notin call.args.throwing

KeepsFields(in, out, names) ==
  \A k \in names : k \in DOMAIN out.f /\ out.f[k] = in.f[k]

\* C37 as stated: one output trade per submitted trade, in order, every
\* submitted field unchanged; a trade without candles for its normalized
\* symbol, or whose snapshot computation failed, is passed through with no
\* indicators field added; otherwise the only change is the added
\* indicators field.
C37_EnrichmentKeepsEveryField ==
  call.op = "enrich" =>
    /\ Len(call.out) = Len(call.args.trades)
    /\ \A i \in 1..Len(call.out) :
         LET in == call.args.trades[i]
             out == call.out[i]
         IN /\ KeepsFields(in, out, DOMAIN in.f)
            /\ IF IsEnriched(i)
               THEN /\ DOMAIN out.f = DOMAIN in.f \cup {"indicators"}
                    /\ out.f["indicators"] = SnapshotOfTrade(in, call.args.bySymbol)
               ELSE out = in

\* C37, amended: one output trade per submitted trade, in order, every
\* submitted field other than indicators unchanged; a trade without candles
\* for its normalized symbol, or whose snapshot computation failed, is
\* passed through with no indicators field added; otherwise the only change is the indicators field, added or, when the
\* trade came with one, replaced by the computed snapshot.
C37_EnrichmentKeepsOtherFields ==
  call.op = "enrich" =>
    /\ Len(call.out) = Len(call.args.trades)
    /\ \A i \in 1..Len(call.out) :
         LET in == call.args.trades[i]
             out == call.out[i]
         IN /\ KeepsFields(in, out, DOMAIN in.f \ {"indicators"})
            /\ IF IsEnriched(i)
               THEN /\ DOMAIN out.f = DOMAIN in.f \cup {"indicators"}
                    /\ out.f["indicators"] = SnapshotOfTrade(in, call.args.bySymbol)
               ELSE out = in

\* two trades came back in order: one enriched, one passed through because
\* its symbol's candle list is empty
C37_Witness ==
  /\ call.op = "enrich"
  /\ Len(call.out) = 2
  /\ IsEnriched(1) /\ "indicators" \in DOMAIN call.out[1].f
  /\ ~IsEnriched(2) /\ call.out[2] = call.args.trades[2]
  /\ Get(call.args.trades[2], "symbol") = JStr(PoolSymbols[3])


\* ---------------------------------------------------------------------------
\* getNewsDigest, one symbol answered from upstream: the merge of the two
\* answers, the scores, the sort and the cut (lines 186-230)
\* ---------------------------------------------------------------------------

\* the articles whose url is truthy and was not seen before, in order
DedupeByUrl(items) ==
  SelectSeq([i \in 1..Len(items) |->
               [a |-> items[i],
                keep |-> /\ Len(items[i].url) > 0
                         /\ \A j \in 1..(i - 1) : items[j].url # items[i].url]],
            LAMBDA e : e.keep)

ScoredOf(a, sym, baseKeywords, fromMs, toMs, now) ==
  [a |-> a,
   score |-> scoreOf(a, sym, baseKeywords, fromMs, toMs, now),
   t |-> IF a.publishedAt = NoTime THEN now ELSE a.publishedAt]

\* merged.map: every kept article with its score and its time
RECURSIVE ScoreAll(_, _, _, _, _, _)
ScoreAll(merged, sym, baseKeywords, fromMs, toMs, now) ==
  IF merged = <<>> THEN <<>>
  ELSE <<ScoredOf(Head(merged).a, sym, baseKeywords, fromMs, toMs, now)>>
         \o ScoreAll(Tail(merged), sym, baseKeywords, fromMs, toMs, now)

\* the comparator without its second part: equal scores keep their order
ComesFirst_ScoreOnly(x, y) == LessThan(y.score, x.score)

\* (y.score - x.score) || (y.t - x.t) is negative: x is sorted before y
ComesFirst(x, y) ==
  \/ LessThan(y.score, x.score)
  \/ x.score = y.score /\ y.t < x.t

\* sorted is in order; x goes before the first entry it comes first of
InsertScored(sorted, x) ==
  LET at == { i \in 1..Len(sorted) : ComesFirst(x, sorted[i]) }
  IN IF at = {} THEN Append(sorted, x)
     ELSE SubSeq(sorted, 1, (CHOOSE i \in at : \A j \in at : i <= j) - 1) \o <<x>>
            \o SubSeq(sorted, CHOOSE i \in at : \A j \in at : i <= j, Len(sorted))

\* Array.prototype.sort with that comparator (the sort is stable)
SortScored(scored) ==
  LET st[n \in 0..Len(scored)] ==
        IF n = 0 THEN <<>> ELSE InsertScored(st[n - 1], scored[n])
  IN st[Len(scored)]

NewsItemOf(a, sym) == [symbol |-> sym, time |-> a.publishedAt, title |-> a.title, url |-> a.url]

SelectNews(items1, items2, sym, baseKeywords, fromMs, toMs, now, maxPerSymbol) ==
  LET merged == DedupeByUrl(items1 \o items2)
      sorted == SortScored(ScoreAll(merged, sym, baseKeywords, fromMs, toMs, now))
  IN [i \in 1..Min(maxPerSymbol, Len(sorted)) |-> NewsItemOf(sorted[i].a, sym)]

MaxPerSymbol == 2
MaxItems == 3
NewsItem(url, title, publishedAt) ==
  [url |-> url, title |-> title, description |-> <<>>, publishedAt |-> publishedAt]
UpstreamArticles ==
  { NewsItem(<<"1">>, <<"S", "Y">>, 3),
    NewsItem(<<"2">>, <<"a">>, 9),
    NewsItem(<<"3">>, <<"a">>, 6),
    NewsItem(<<>>, <<"S", "Y", " ", "a">>, 9),
    NewsItem(<<"4">>, <<>>, 1),
    NewsItem(<<"5">>, <<"a">>, NoTime) }
DigestKeywords == << <<"a">> >>

\* an answer of the provider: no article twice
RECURSIVE AnswersUpTo(_)
AnswersUpTo(n) ==
  IF n = 0 THEN { <<>> }
  ELSE LET shorter == AnswersUpTo(n - 1)
       IN shorter \cup { Append(q, x) :
                           q \in { r \in shorter : Len(r) = n - 1 },
                           x \in UpstreamArticles }

NoArticleTwice(q) == \A i, j \in DOMAIN q : q[i] = q[j] => i = j

InitDigest ==
  /\ ControllerIdle
  /\ ServiceIdle({KeyWithFallback})
  /\ CoerceIdle
  /\ journalSymbol = <<>>
  /\ mapped = NoMapped
  /\ pg = PolygonIdle
  /\ macroObservation = {}
  /\ macroLatest = {}
  /\ upsert = NoUpsert
  /\ ind = IndicatorsIdle
  /\ GatewayIdle
  /\ FlowIdle
  /\ \E items1 \in { q \in AnswersUpTo(MaxItems) : NoArticleTwice(q) },
        items2 \in AnswersUpTo(1) :
       call = [op |-> "answers", args |-> [items1 |-> items1, items2 |-> items2], out |-> <<>>]

SelectFromAnswers ==
  /\ call.op = "answers"
  /\ call' = [call EXCEPT
                !.op = "selected",
                !.out = SelectNews(call.args.items1, call.args.items2, NewsSymbol,
                                   DigestKeywords, Window.fromMs, Window.toMs, Window.now,
                                   MaxPerSymbol)]
  /\ UNCHANGED <<ctlVars, llmVars, coerceVars, utilVars, gatewayVars, poolVars, flowVars>>

NextDigest == SelectFromAnswers

SpecDigest == InitDigest /\ [][NextDigest]_vars

\* the candidates of a call: the articles of the answers that have a url
CandidatesOf(args) ==
  { a \in { (args.items1 \o args.items2)[i] : i \in 1..(Len(args.items1) + Len(args.items2)) } :
      Len(a.url) > 0 }
CandidateAt(args, url) == CHOOSE a \in CandidatesOf(args) : a.url = url
DigestScore(a) ==
  ScoredOf(a, NewsSymbol, DigestKeywords, Window.fromMs, Window.toMs, Window.now)

DEFAULT_WEIGHTS ==
  [baseV2 |-> Num(1), baseOther |-> Quot(7, 10), symbolMatch |-> Num(1),
   symbolOther |-> Quot(1, 2), dirMatchBoost |-> Quot(11, 10), recFactor |-> Quot(3, 5)]

\* the canon of the rule /.../|overtrading/i; the other rules of
\* DEFAULT_SYNONYMS match Cyrillic text only
CanonOvertrading == <<"O","V","E","R","T","R","A","D","I","N","G">>

\* makePhraseNormalizer()
normalizePhrase(raw) ==
  LET s == Trim(ToLowerCase(raw))
  IN IF Len(s) = 0 THEN <<>>
     ELSE IF Contains(s, <<"o","v","e","r","t","r","a","d","i","n","g">>) THEN CanonOvertrading
     ELSE s

\* JSON.stringify of a stored analysis: the texts drawn need no escaping
Quoted(s) == <<"\"">> \o s \o <<"\"">>
RECURSIVE JoinQuoted(_)
JoinQuoted(xs) ==
  IF Len(xs) = 0 THEN <<>>
  ELSE IF Len(xs) = 1 THEN Quoted(xs[1])
  ELSE Quoted(xs[1]) \o <<",">> \o JoinQuoted(Tail(xs))
Member(name, text) == Quoted(name) \o <<":">> \o text
StringifyAi(ai) ==
  <<"{">> \o Member(<<"s","u","m","m","a","r","y">>, Quoted(ai.summary))
    \o (IF ai.v2
        THEN <<",">> \o Member(<<"m","a","r","k","e","t","C","o","n","t","e","x","t">>, Quoted(<<>>))
               \o <<",">> \o Member(<<"t","r","a","d","e","A","n","a","l","y","s","i","s">>, Quoted(<<>>))
               \o <<",">> \o Member(<<"p","s","y","c","h","o","l","o","g","y">>, Quoted(<<>>))
        ELSE <<>>)
    \o <<",">> \o Member(<<"w","e","a","k","n","e","s","s","e","s">>, <<"[">> \o JoinQuoted(ai.weaknesses) \o <<"]">>)
    \o <<",">> \o Member(<<"r","e","c","o","m","m","e","n","d","a","t","i","o","n","s">>,
                         <<"[">> \o JoinQuoted(ai.recommendations) \o <<"]">>)
    \o <<"}">>

\* currentDir: the directions of the trades of the request (the Cyrillic
\* alternatives match none of the directions drawn)
DirectionsOf(trades) ==
  LET dirs == [i \in 1..Len(trades) |-> ToLowerCase(trades[i].direction)]
  IN [hasLong |-> \E i \in 1..Len(dirs) :
                    Contains(dirs[i], <<"b","u","y">>) \/ Contains(dirs[i], <<"l","o","n","g">>),
      hasShort |-> \E i \in 1..Len(dirs) :
                     Contains(dirs[i], <<"s","e","l","l">>) \/ Contains(dirs[i], <<"s","h","o","r","t">>)]

\* freq[key] = (freq[key] || 0) + weight, for a key that is not empty
AddWeight(freq, s, weight) ==
  LET key == normalizePhrase(s)
  IN IF Len(key) = 0 THEN freq
     ELSE [k \in DOMAIN freq \cup {key} |->
             IF k = key
             THEN Plus(IF key \in DOMAIN freq THEN freq[key] ELSE Num(0), weight)
             ELSE freq[k]]

RECURSIVE AddPerSymbol(_, _, _, _)
AddPerSymbol(perSymbol, symbols, s, weight) ==
  IF Len(symbols) = 0 THEN perSymbol
  ELSE LET sym == Head(symbols)
           dict == IF sym \in DOMAIN perSymbol THEN perSymbol[sym] ELSE <<>>
           next == IF Len(normalizePhrase(s)) = 0 THEN perSymbol
                   ELSE [k \in DOMAIN perSymbol \cup {sym} |->
                           IF k = sym THEN AddWeight(dict, s, weight) ELSE perSymbol[k]]
       IN AddPerSymbol(next, Tail(symbols), s, weight)

\* phrases.forEach: add(prefix + s, weight) and addPerSymbol for every matched symbol
RECURSIVE AddPhrases(_, _, _, _, _)
AddPhrases(tables, phrases, prefix, matchedSymbols, weight) ==
  IF Len(phrases) = 0 THEN tables
  ELSE AddPhrases([freq |-> AddWeight(tables.freq, prefix \o Head(phrases), weight),
                   perSymbol |-> AddPerSymbol(tables.perSymbol, matchedSymbols,
                                              prefix \o Head(phrases), weight)],
                  Tail(phrases), prefix, matchedSymbols, weight)

MatchedSymbols(currentSymbols, fullText) ==
  SelectSeq(currentSymbols, LAMBDA s : Len(s) > 0 /\ Contains(fullText, ToLowerCase(s)))

DirWeight(currentDir, fullText, W) ==
  LET long == IF currentDir.hasLong
                   /\ (Contains(fullText, <<"l","o","n","g">>) \/ Contains(fullText, <<"b","u","y">>))
              THEN Times(Num(1), W.dirMatchBoost) ELSE Num(1)
  IN IF currentDir.hasShort
          /\ (Contains(fullText, <<"s","h","o","r","t">>) \/ Contains(fullText, <<"s","e","l","l">>))
     THEN Times(long, W.dirMatchBoost) ELSE long

WeightOf(ai, matchedSymbols, currentDir, fullText, W) ==
  Times(Times(IF ai.v2 THEN W.baseV2 ELSE W.baseOther,
              IF Len(matchedSymbols) > 0 THEN W.symbolMatch ELSE W.symbolOther),
        DirWeight(currentDir, fullText, W))

\* one turn of the loop over the records
AddRecord(tables, ai, fullText, matchedSymbols, weight, W) ==
  AddPhrases(AddPhrases(tables, ai.weaknesses, <<>>, matchedSymbols, weight),
             ai.recommendations, <<"[","r","e","c","]"," ">>, matchedSymbols, Times(weight, W.recFactor))

WeighRecord(tables, ai, currentSymbols, currentDir, fullText, W) ==
  AddRecord(tables, ai, fullText, MatchedSymbols(currentSymbols, fullText),
            WeightOf(ai, MatchedSymbols(currentSymbols, fullText), currentDir, fullText, W), W)

RECURSIVE WeighRecords(_, _, _, _, _)
WeighRecords(tables, recent, currentSymbols, currentDir, W) ==
  IF Len(recent) = 0 THEN tables
  ELSE WeighRecords(WeighRecord(tables, Head(recent), currentSymbols, currentDir,
                                ToLowerCase(StringifyAi(Head(recent))), W),
                    Tail(recent), currentSymbols, currentDir, W)

NoTables == [freq |-> <<>>, perSymbol |-> <<>>]

\* currentSymbols: the listed symbols alone, normalized
CurrentSymbols(body) == Unique(NormSymbols(body.symbols))

PersonalTables(body, recent) ==
  WeighRecords(NoTables, recent, CurrentSymbols(body), DirectionsOf(body.trades),
               DEFAULT_WEIGHTS)

MaxRecent == 2
MaxPersonalTrades == 2
StoredAnalyses ==
  { [v2 |-> TRUE, summary |-> <<"E","U","R","U","S","D"," ","b","u","y">>,
     weaknesses |-> << <<"O","v","e","r","t","r","a","d","i","n","g">> >>, recommendations |-> << <<"w","a","i","t">> >>],
    [v2 |-> FALSE, summary |-> <<"c","a","l","m">>,
     weaknesses |-> << <<"l","a","t","e">> >>, recommendations |-> <<>>],
    [v2 |-> TRUE, summary |-> <<"G","B","P","U","S","D"," ","s","e","l","l">>,
     weaknesses |-> << <<"l","a","t","e">>, <<" ">> >>, recommendations |-> << <<"w","a","i","t">> >>] }
ListedSymbols == { <<>>, << <<"E","U","R","U","S","D">> >>, << <<" ","e","u","r","u","s","d","+">> >> }
PersonalTrades ==
  { [symbol |-> <<"E","U","R","U","S","D">>, direction |-> <<"b","u","y">>],
    [symbol |-> <<"G","B","P","U","S","D">>, direction |-> <<"s","e","l","l">>] }

InitPersonal ==
  /\ ControllerIdle
  /\ ServiceIdle({KeyWithFallback})
  /\ CoerceIdle
  /\ journalSymbol = <<>>
  /\ mapped = NoMapped
  /\ pg = PolygonIdle
  /\ macroObservation = {}
  /\ macroLatest = {}
  /\ upsert = NoUpsert
  /\ ind = IndicatorsIdle
  /\ GatewayIdle
  /\ FlowIdle
  /\ \E symbols \in ListedSymbols,
        trades \in SeqsUpTo(PersonalTrades, MaxPersonalTrades),
        recent \in SeqsUpTo(StoredAnalyses, MaxRecent) :
       /\ Len(SymbolsOf([symbols |-> symbols, trades |-> trades])) > 0
       /\ call = [op |-> "history",
                  args |-> [body |-> [symbols |-> symbols, trades |-> trades],
                            recent |-> recent],
                  out |-> NoTables]

WeighHistory ==
  /\ call.op = "history"
  /\ call' = [call EXCEPT !.op = "weighed",
                          !.out = PersonalTables(call.args.body, call.args.recent)]
  /\ UNCHANGED <<ctlVars, llmVars, coerceVars, utilVars, gatewayVars, poolVars, flowVars>>

NextPersonal == WeighHistory

SpecPersonal == InitPersonal /\ [][NextPersonal]_vars

\* the symbols of the request, listed or inferred from its trades
RequestSymbols(body) == Unique(NormSymbols(SymbolsOf(body)))

\* C39: for each record, every weakness adds baseWeight x symbolWeight x
\* directionWeight to the global table under its canonical phrase and every
\* recommendation that weight x recFactor; symbolWeight is the boosted value
\* exactly when a symbol of the request, listed or inferred from the trades,
\* occurs in the record's text, and the table of a symbol receives the same
\* contribution exactly when that symbol occurs in the text.
C39_WeightsFollowRequestSymbols ==
  call.op = "weighed" =>
    call.out = WeighRecords(NoTables, call.args.recent, RequestSymbols(call.args.body),
                            DirectionsOf(call.args.body.trades), DEFAULT_WEIGHTS)

\* a request that lists no symbol: its trades name one that a record
\* mentions, and no table of that symbol is kept
C39_InferredSymbolIgnored ==
  /\ call.op = "weighed"
  /\ call.args.body.symbols = <<>>
  /\ \E i \in 1..Len(call.args.recent) :
       Contains(ToLowerCase(StringifyAi(call.args.recent[i])), <<"e","u","r","u","s","d">>)
  /\ \E i \in 1..Len(call.args.body.trades) : call.args.body.trades[i].symbol = <<"E","U","R","U","S","D">>
  /\ call.out.perSymbol = <<>>


\* ---------------------------------------------------------------------------
\* the range validation of analyzePeriod and getMarketOHLC and the order of
\* the two instants
\* ---------------------------------------------------------------------------

\* the request has reached the market-data fetch
ReachedFetch == "polygon" \in calls

\* C40: analyzePeriod and getMarketOHLC reject a request whose to instant is
\* earlier than its from instant: every request that reaches the market-data
\* fetch has from <= to.
C40_FetchedRangeIsOrdered ==
  ReachedFetch => (req.from.k = "ok" /\ req.to.k = "ok" /\ req.from.h <= req.to.h)

\* a request whose range runs backwards is fetched for: its length counts as
\* zero days
C40_ReversedRangeFetched ==
  /\ ReachedFetch
  /\ req.from.k = "ok" /\ req.to.k = "ok"
  /\ req.to.h < req.from.h
  /\ diffDaysUTC(req.from, req.to) = 0

====
